---------------------------- MODULE Spec2Model ----------------------------
(***************************************************************************)
(* The smart reply engine of novaxa_bot                                    *)
(* (src/smart_reply/smart_reply_engine.py): the trigger, response and      *)
(* mapping stores with their persisted files, the add operations and       *)
(* process_message with its matching and rendering.                        *)
(*                                                                         *)
(* A Python str is a sequence of one-character strings, a dict is the      *)
(* sequence of its [key, val] entries in insertion order, None is a record *)
(* with some = FALSE.  The timestamps created_at / updated_at are written  *)
(* by the add operations and read by nothing; they are left out.           *)
(***************************************************************************)
EXTENDS Integers, Sequences, FiniteSets

(***************************************************************************)
(* Characters and the str methods the engine uses                          *)
(***************************************************************************)
UpperChars == <<"A","B","C","D","E","F","G","H","I","J","K","L","M",
                "N","O","P","Q","R","S","T","U","V","W","X","Y","Z">>

LowerChars == <<"a","b","c","d","e","f","g","h","i","j","k","l","m",
                "n","o","p","q","r","s","t","u","v","w","x","y","z">>

DigitChars == <<"0","1","2","3","4","5","6","7","8","9">>

TAB == "\t"
NEWLINE == "\n"

\* str.isspace() of one character
WhitespaceChars == {" ", "\t", "\n", "\r", "\f"}

Range(s) == {s[i] : i \in 1..Len(s)}

\* F(a), with a evaluated once: TLC evaluates an operator's argument again
\* at each of its uses, and a bound variable only once
Bind(a, F(_)) == CHOOSE r \in {F(x) : x \in {a}} : TRUE

IsUpper(c) == c \in Range(UpperChars)
IsLetter(c) == c \in Range(UpperChars) \cup Range(LowerChars)
IsDigit(c) == c \in Range(DigitChars)
IsWordChar(c) == IsLetter(c) \/ IsDigit(c) \/ c = "_"

\* str.lower() of one character
LowerChar(c) ==
    IF IsUpper(c)
    THEN LowerChars[CHOOSE i \in 1..Len(UpperChars) : UpperChars[i] = c]
    ELSE c

\* str.lower()
Lower(s) == [i \in 1..Len(s) |-> LowerChar(s[i])]

\* str.strip(): leading and trailing whitespace removed
Strip(s) ==
    LET keep == {i \in 1..Len(s) : s[i] \notin WhitespaceChars}
    IN  IF keep = {} THEN <<>>
        ELSE LET lo == CHOOSE i \in keep : \A j \in keep : i <= j
                 hi == CHOOSE i \in keep : \A j \in keep : j <= i
             IN  SubSeq(s, lo, hi)

\* s[pos:].startswith(pat), pos counted from 1
StartsAt(s, pat, pos) ==
    /\ pos + Len(pat) - 1 <= Len(s)
    /\ \A k \in 1..Len(pat) : s[pos + k - 1] = pat[k]

\* pat in s
IsSubstring(pat, s) == \E pos \in 1..(Len(s) + 1) : StartsAt(s, pat, pos)

\* str.replace(old, new) for a non-empty old: the non-overlapping
\* occurrences of old, found from the left, each replaced by new
RECURSIVE ReplaceFrom(_, _, _, _)
ReplaceFrom(s, old, new, pos) ==
    IF pos > Len(s) THEN <<>>
    ELSE IF StartsAt(s, old, pos)
         THEN new \o ReplaceFrom(s, old, new, pos + Len(old))
         ELSE <<s[pos]>> \o ReplaceFrom(s, old, new, pos + 1)

Replace(s, old, new) ==
    Bind(s, LAMBDA s1 : Bind(old, LAMBDA old1 : Bind(new, LAMBDA new1 :
        ReplaceFrom(s1, old1, new1, 1))))

\* str(n) of a natural number
RECURSIVE IntToStr(_)
IntToStr(n) ==
    IF n < 10 THEN <<DigitChars[n + 1]>>
    ELSE IntToStr(n \div 10) \o <<DigitChars[(n % 10) + 1]>>

\* f"{n:03d}"
Fmt03d(n) ==
    LET d == IntToStr(n)
    IN  IF Len(d) >= 3 THEN d
        ELSE [i \in 1..(3 - Len(d)) |-> "0"] \o d

(***************************************************************************)
(* re.search(pattern, text, re.IGNORECASE) and match.groups()              *)
(*                                                                         *)
(* The dialect: literal characters, ".", the escapes of a backslash with a *)
(* letter or a punctuation character, capturing groups "(...)", and the    *)
(* greedy quantifiers "+", "*", "?" on an atom or a group.  Compile says   *)
(* "error" where re.compile raises re.error, and "unsupported" for the     *)
(* constructs left out (classes "[..]", "|", "^", "$", "{m,n}", "(?..)",   *)
(* lazy and possessive quantifiers, backreferences, \x \u \N), which no    *)
(* phrase drawn below uses.                                                *)
(***************************************************************************)
NoneVal == [some |-> FALSE, s |-> <<>>]

Some(s) == [some |-> TRUE, s |-> s]

Node(t, c, n, min, max, body) ==
    [t |-> t, c |-> c, n |-> n, min |-> min, max |-> max, body |-> body]

ParseResult(status, nodes, next, ng) ==
    [status |-> status, nodes |-> nodes, next |-> next, ng |-> ng]

ParseFail(status) == ParseResult(status, <<>>, 0, 0)

QuantChars == {"+", "*", "?"}

\* the characters "\a" and "\v", which no text drawn below holds
BEL == "BEL"
VT == "VT"

\* sre_parse._escape outside a class: the node of backslash + e
EscapeNode(e) ==
    IF e \in {"d", "D", "s", "S", "w", "W"} THEN <<Node("cls", e, 0, 0, 0, <<>>)>>
    ELSE IF e = "t" THEN <<Node("chr", TAB, 0, 0, 0, <<>>)>>
    ELSE IF e = "n" THEN <<Node("chr", NEWLINE, 0, 0, 0, <<>>)>>
    ELSE IF e = "r" THEN <<Node("chr", "\r", 0, 0, 0, <<>>)>>
    ELSE IF e = "f" THEN <<Node("chr", "\f", 0, 0, 0, <<>>)>>
    ELSE IF e = "a" THEN <<Node("chr", BEL, 0, 0, 0, <<>>)>>
    ELSE IF e = "v" THEN <<Node("chr", VT, 0, 0, 0, <<>>)>>
    ELSE IF e = "A" THEN <<Node("bos", "", 0, 0, 0, <<>>)>>
    ELSE IF e = "Z" THEN <<Node("eos", "", 0, 0, 0, <<>>)>>
    ELSE IF e = "b" THEN <<Node("wordb", "", 0, 0, 0, <<>>)>>
    ELSE IF e = "B" THEN <<Node("nwordb", "", 0, 0, 0, <<>>)>>
    ELSE IF IsLetter(e) THEN <<>>                  \* re.error: bad escape
    ELSE <<Node("chr", e, 0, 0, 0, <<>>)>>         \* an escaped punctuation character

RECURSIVE ParseSeq(_, _, _, _)
RECURSIVE ParseAtom(_, _, _, _)

\* one atom starting at p[i], which is not ")"
ParseAtom(p, i, ng, depth) ==
    LET c == p[i]
    IN  IF c \in QuantChars THEN ParseFail("error")        \* nothing to repeat
        ELSE IF c = "(" THEN
            IF i + 1 <= Len(p) /\ p[i + 1] = "?" THEN ParseFail("unsupported")
            ELSE LET inner == ParseSeq(p, i + 1, ng + 1, depth + 1)
                 IN  IF inner.status # "ok" THEN inner
                     ELSE IF inner.next > Len(p) THEN ParseFail("error")  \* missing )
                     ELSE ParseResult("ok",
                                      <<Node("grp", "", ng + 1, 0, 0, inner.nodes)>>,
                                      inner.next + 1, inner.ng)
        ELSE IF c = "\\" THEN
            IF i + 1 > Len(p) THEN ParseFail("error")      \* bad escape (end of pattern)
            ELSE IF IsDigit(p[i + 1]) \/ p[i + 1] \in {"x", "u", "U", "N"}
                 THEN ParseFail("unsupported")
            ELSE IF EscapeNode(p[i + 1]) = <<>> THEN ParseFail("error")
            ELSE ParseResult("ok", EscapeNode(p[i + 1]), i + 2, ng)
        ELSE IF c = "." THEN ParseResult("ok", <<Node("any", "", 0, 0, 0, <<>>)>>, i + 1, ng)
        ELSE IF c \in {"[", "|", "^", "$"} THEN ParseFail("unsupported")
        ELSE IF c = "{" /\ i + 1 <= Len(p) /\ IsDigit(p[i + 1])
        THEN ParseFail("unsupported")
        ELSE ParseResult("ok", <<Node("chr", c, 0, 0, 0, <<>>)>>, i + 1, ng)

\* an atom with the quantifier that follows it
ParseItem(p, i, ng, depth) ==
    LET a == ParseAtom(p, i, ng, depth)
    IN  IF a.status # "ok" THEN a
        ELSE IF a.next <= Len(p) /\ p[a.next] \in QuantChars THEN
            IF a.nodes[1].t \in {"bos", "eos", "wordb", "nwordb"}
            THEN ParseFail("error")                        \* nothing to repeat
            ELSE IF a.next + 1 <= Len(p) /\ p[a.next + 1] = "*"
            THEN ParseFail("error")                        \* multiple repeat
            ELSE IF a.next + 1 <= Len(p) /\ p[a.next + 1] \in {"?", "+"}
            THEN ParseFail("unsupported")
            ELSE ParseResult("ok",
                             <<Node("rep", "", 0,
                                    IF p[a.next] = "+" THEN 1 ELSE 0,
                                    IF p[a.next] = "?" THEN 1 ELSE 0,   \* 0: no maximum
                                    a.nodes)>>,
                             a.next + 1, a.ng)
        ELSE IF a.next <= Len(p) /\ p[a.next] = "{"
                /\ a.next + 1 <= Len(p) /\ IsDigit(p[a.next + 1])
        THEN ParseFail("unsupported")
        ELSE a

\* the items from p[i] to the end of the pattern or to the ")" closing the
\* group being parsed; next is the place of that ")" or Len(p) + 1
ParseSeq(p, i, ng, depth) ==
    IF i > Len(p) THEN ParseResult("ok", <<>>, i, ng)
    ELSE IF p[i] = ")" THEN
        IF depth = 0 THEN ParseFail("error")               \* unbalanced parenthesis
        ELSE ParseResult("ok", <<>>, i, ng)
    ELSE LET it == ParseItem(p, i, ng, depth)
         IN  IF it.status # "ok" THEN it
             ELSE LET rest == ParseSeq(p, it.next, it.ng, depth)
                  IN  IF rest.status # "ok" THEN rest
                      ELSE ParseResult("ok", it.nodes \o rest.nodes, rest.next, rest.ng)

\* re.compile(p): status "ok" with the parsed pattern, or "error" for re.error
Compile(p) == ParseSeq(p, 1, 0, 0)

ClassHas(k, c) ==
    IF k = "d" THEN IsDigit(c)
    ELSE IF k = "D" THEN ~IsDigit(c)
    ELSE IF k = "s" THEN c \in WhitespaceChars
    ELSE IF k = "S" THEN c \notin WhitespaceChars
    ELSE IF k = "w" THEN IsWordChar(c)
    ELSE ~IsWordChar(c)

AtWordBoundary(text, pos) ==
    LET before == pos > 1 /\ IsWordChar(text[pos - 1])
        after == pos <= Len(text) /\ IsWordChar(text[pos])
    IN  before # after

RECURSIVE FlattenFrom(_, _)
FlattenFrom(ss, i) == IF i > Len(ss) THEN <<>> ELSE ss[i] \o FlattenFrom(ss, i + 1)

\* the concatenation of the sequences of ss
Flatten(ss) == Bind(ss, LAMBDA ss1 : FlattenFrom(ss1, 1))

MatchState(pos, caps) == [pos |-> pos, caps |-> caps]

RECURSIVE MatchNode(_, _, _, _)
RECURSIVE MatchSeq(_, _, _, _, _)
RECURSIVE MatchRep(_, _, _, _, _)

\* The ways node matches text from pos with the groups captured so far, in
\* the order the backtracking matcher tries them.
MatchNode(node, text, pos, caps) ==
    LET one(ok) == IF ok THEN <<MatchState(pos + 1, caps)>> ELSE <<>>
        zero(ok) == IF ok THEN <<MatchState(pos, caps)>> ELSE <<>>
    IN  IF node.t = "chr"
        THEN one(pos <= Len(text) /\ LowerChar(text[pos]) = LowerChar(node.c))
        ELSE IF node.t = "any" THEN one(pos <= Len(text) /\ text[pos] # NEWLINE)
        ELSE IF node.t = "cls" THEN one(pos <= Len(text) /\ ClassHas(node.c, text[pos]))
        ELSE IF node.t = "bos" THEN zero(pos = 1)
        ELSE IF node.t = "eos" THEN zero(pos = Len(text) + 1)
        ELSE IF node.t = "wordb" THEN zero(AtWordBoundary(text, pos))
        ELSE IF node.t = "nwordb" THEN zero(Len(text) > 0 /\ ~AtWordBoundary(text, pos))
        ELSE IF node.t = "grp"
        THEN Bind(MatchSeq(node.body, 1, text, pos, caps),
                  LAMBDA rs :
                    [k \in 1..Len(rs) |->
                        MatchState(rs[k].pos,
                                   [rs[k].caps EXCEPT ![node.n] =
                                        Some(SubSeq(text, pos, rs[k].pos - 1))])])
        ELSE MatchRep(node, text, pos, caps, 0)

MatchSeq(nodes, i, text, pos, caps) ==
    IF i > Len(nodes) THEN <<MatchState(pos, caps)>>
    ELSE Bind(MatchNode(nodes[i], text, pos, caps),
              LAMBDA rs :
                Flatten([k \in 1..Len(rs) |->
                            MatchSeq(nodes, i + 1, text, rs[k].pos, rs[k].caps)]))

\* greedy repetition: one more iteration is tried before stopping; an
\* iteration that consumes nothing ends the repetition
MatchRep(node, text, pos, caps, count) ==
    LET more(once) ==
            Flatten([k \in 1..Len(once) |->
                        IF once[k].pos > pos
                        THEN MatchRep(node, text, once[k].pos, once[k].caps, count + 1)
                        ELSE IF count + 1 >= node.min
                             THEN <<once[k]>>
                             ELSE <<>>])
        stop == IF count >= node.min THEN <<MatchState(pos, caps)>> ELSE <<>>
    IN  Bind(IF node.max = 0 \/ count < node.max
             THEN MatchNode(node.body[1], text, pos, caps)
             ELSE <<>>,
             more) \o stop

\* re.search over a compiled pattern: the match at the leftmost start;
\* groups is match.groups()
Search(compiled, text) ==
    LET init == [g \in 1..compiled.ng |-> NoneVal]
        at(st) == MatchSeq(compiled.nodes, 1, text, st, init)
    IN  Bind([st \in 1..(Len(text) + 1) |-> at(st)],
             LAMBDA found :
                LET hits == {st \in 1..(Len(text) + 1) : Len(found[st]) > 0}
                IN  IF hits = {} THEN [matched |-> FALSE, groups |-> <<>>]
                    ELSE [matched |-> TRUE,
                          groups |-> found[CHOOSE h \in hits :
                                              \A g \in hits : h <= g][1].caps])

(***************************************************************************)
(* dict and the records of the three stores                                *)
(***************************************************************************)
Entry(key, val) == [key |-> key, val |-> val]

\* key in d
DictHas(d, key) == \E i \in 1..Len(d) : d[i].key = key

\* d[key], for a key of d
DictGet(d, key) == d[CHOOSE i \in 1..Len(d) : d[i].key = key].val

\* d[key] = val: a new key is appended, a present key keeps its place
DictSet(d, key, val) ==
    IF DictHas(d, key)
    THEN [i \in 1..Len(d) |-> IF d[i].key = key THEN Entry(key, val) ELSE d[i]]
    ELSE Append(d, Entry(key, val))

\* list(d.values())
DictValues(d) == [i \in 1..Len(d) |-> d[i].val]

\* rec.get(field, default): has is the set of the record's keys
Get(rec, field, default) == IF field \in rec.has THEN rec[field] ELSE default

TriggerKeys ==
    {"trigger_id", "trigger_phrase", "match_type", "intent", "is_active", "priority"}

ResponseKeys ==
    {"response_id", "response_text", "response_type", "attachments",
     "follow_up_action_id", "is_active"}

MappingKeys ==
    {"mapping_id", "trigger_id", "response_id", "conditions",
     "order_in_sequence", "is_active"}

\* f"TRG_{n:03d}", f"RES_{n:03d}", f"MAP_{n:03d}"
TriggerId(n) == <<"T", "R", "G", "_">> \o Fmt03d(n)

ResponseId(n) == <<"R", "E", "S", "_">> \o Fmt03d(n)

MappingId(n) == <<"M", "A", "P", "_">> \o Fmt03d(n)

\* an add_trigger that numbers from the entries present before the add, so
\* that the second add takes the id of the first
add_trigger_store_recount(trigs, trigger_phrase, match_type, intent, priority, is_active) ==
    LET trigger_id == TriggerId(IF Len(trigs) = 0 THEN 1 ELSE Len(trigs))
    IN  DictSet(trigs, trigger_id,
                [has |-> TriggerKeys,
                 trigger_id |-> trigger_id,
                 trigger_phrase |-> trigger_phrase,
                 match_type |-> match_type,
                 intent |-> intent,
                 is_active |-> is_active,
                 priority |-> priority])

\* the result of add_trigger on the trigger dict
add_trigger_store(trigs, trigger_phrase, match_type, intent, priority, is_active) ==
    LET trigger_id == TriggerId(Len(trigs) + 1)
    IN  DictSet(trigs, trigger_id,
                [has |-> TriggerKeys,
                 trigger_id |-> trigger_id,
                 trigger_phrase |-> trigger_phrase,
                 match_type |-> match_type,
                 intent |-> intent,
                 is_active |-> is_active,
                 priority |-> priority])

\* the result of add_response on the response dict
add_response_store(resps, response_text, response_type, attachments, is_active) ==
    LET response_id == ResponseId(Len(resps) + 1)
    IN  DictSet(resps, response_id,
                [has |-> ResponseKeys,
                 response_id |-> response_id,
                 response_text |-> response_text,
                 response_type |-> response_type,
                 attachments |-> attachments,
                 follow_up_action_id |-> NoneVal,
                 is_active |-> is_active])

\* the two checks of add_mapping: "" when both ids are known
add_mapping_error(trigs, resps, trigger_id, response_id) ==
    IF ~DictHas(trigs, trigger_id) THEN "trigger_not_found"
    ELSE IF ~DictHas(resps, response_id) THEN "response_not_found"
    ELSE ""

\* the mapping list after an add_mapping that looks the trigger up and not
\* the response
add_mapping_trigger_checked(trigs, resps, maps, trigger_id, response_id, conditions, order_in_sequence, is_active) ==
    IF ~DictHas(trigs, trigger_id) THEN maps
    ELSE Append(maps,
                [has |-> MappingKeys,
                 mapping_id |-> MappingId(Len(maps) + 1),
                 trigger_id |-> trigger_id,
                 response_id |-> response_id,
                 conditions |-> conditions.d,
                 order_in_sequence |-> order_in_sequence,
                 is_active |-> is_active])

\* an add_mapping that appends without looking at the two stores
add_mapping_unchecked(trigs, resps, maps, trigger_id, response_id, conditions, order_in_sequence, is_active) ==
    Append(maps,
           [has |-> MappingKeys,
            mapping_id |-> MappingId(Len(maps) + 1),
            trigger_id |-> trigger_id,
            response_id |-> response_id,
            conditions |-> conditions.d,
            order_in_sequence |-> order_in_sequence,
            is_active |-> is_active])

\* the mapping list after add_mapping; conditions is None or a dict, and
\* None is stored as {}
add_mapping_store(trigs, resps, maps, trigger_id, response_id, conditions, order_in_sequence, is_active) ==
    IF add_mapping_error(trigs, resps, trigger_id, response_id) # "" THEN maps
    ELSE Append(maps,
                [has |-> MappingKeys,
                 mapping_id |-> MappingId(Len(maps) + 1),
                 trigger_id |-> trigger_id,
                 response_id |-> response_id,
                 conditions |-> conditions.d,
                 order_in_sequence |-> order_in_sequence,
                 is_active |-> is_active])

(***************************************************************************)
(* process_message                                                         *)
(***************************************************************************)
_preprocess_message(message_text) == Strip(Lower(message_text))

\* f"{{crm_{key}}}"
CrmToken(key) == <<"{", "c", "r", "m", "_">> \o key \o <<"}">>

\* f"{{regex_group_{i+1}}}", n = i + 1
GroupToken(n) ==
    <<"{", "r", "e", "g", "e", "x", "_", "g", "r", "o", "u", "p", "_">>
        \o IntToStr(n) \o <<"}">>

\* str(group) of an element of match.groups(): a str, or None
StrOfGroup(group) == IF group.some THEN group.s ELSE <<"N", "o", "n", "e">>

RECURSIVE ReplaceCrm(_, _, _)
ReplaceCrm(text, items, i) ==
    IF i > Len(items) THEN text
    ELSE ReplaceCrm(Replace(text, CrmToken(items[i].key), items[i].val), items, i + 1)

RECURSIVE ReplaceGroups(_, _, _)
ReplaceGroups(text, groups, i) ==
    IF i > Len(groups) THEN text
    ELSE ReplaceGroups(Replace(text, GroupToken(i), StrOfGroup(groups[i])), groups, i + 1)

\* crm_data and matched_groups are None (some = FALSE) or hold a dict d and
\* a tuple g; an empty dict and an empty tuple are falsy
_format_response(response_text, crm_data, matched_groups) ==
    LET afterCrm == IF crm_data.some /\ Len(crm_data.d) > 0
                    THEN ReplaceCrm(response_text, crm_data.d, 1)
                    ELSE response_text
    IN  IF matched_groups.some /\ Len(matched_groups.g) > 0
        THEN ReplaceGroups(afterCrm, matched_groups.g, 1)
        ELSE afterCrm

NoData == [some |-> FALSE, d |-> <<>>]

SomeData(d) == [some |-> TRUE, d |-> d]

NoGroups == [some |-> FALSE, g |-> <<>>]

SomeGroups(g) == [some |-> TRUE, g |-> g]

\* a sort by priority that is not stable: of two triggers with the same
\* priority, the one inserted later comes first
SortTriggersLaterFirst(ts) ==
    LET key(i) == Get(ts[i], "priority", 10)
        before(i) == {j \in 1..Len(ts) : key(j) < key(i) \/ (key(j) = key(i) /\ j > i)}
    IN  [r \in 1..Len(ts) |-> ts[CHOOSE i \in 1..Len(ts) : Cardinality(before(i)) = r - 1]]

\* sorted(triggers.values(), key=priority): a stable sort, so an element's
\* place is the number of elements that sort before it
SortTriggers(ts) ==
    LET key(i) == Get(ts[i], "priority", 10)
        before(i) == {j \in 1..Len(ts) : key(j) < key(i) \/ (key(j) = key(i) /\ j < i)}
    IN  [r \in 1..Len(ts) |-> ts[CHOOSE i \in 1..Len(ts) : Cardinality(before(i)) = r - 1]]

\* a sort of the mappings that is not stable: of two mappings with the same
\* order_in_sequence, the one added later comes first
SortMappingsLaterFirst(ms) ==
    LET key(i) == Get(ms[i], "order_in_sequence", 1)
        before(i) == {j \in 1..Len(ms) : key(j) < key(i) \/ (key(j) = key(i) /\ j > i)}
    IN  [r \in 1..Len(ms) |-> ms[CHOOSE i \in 1..Len(ms) : Cardinality(before(i)) = r - 1]]

\* sorted(applicable_mappings, key=order_in_sequence)
SortMappings(ms) ==
    LET key(i) == Get(ms[i], "order_in_sequence", 1)
        before(i) == {j \in 1..Len(ms) : key(j) < key(i) \/ (key(j) = key(i) /\ j < i)}
    IN  [r \in 1..Len(ms) |-> ms[CHOOSE i \in 1..Len(ms) : Cardinality(before(i)) = r - 1]]

\* re.search(trigger_phrase, processed_text, re.IGNORECASE) inside the try:
\* a pattern that does not compile (re.error) is a trigger that does not match
RegexSearch(trigger_phrase, processed_text) ==
    Bind(Compile(trigger_phrase),
         LAMBDA compiled :
             IF compiled.status = "ok" THEN Search(compiled, processed_text)
             ELSE [matched |-> FALSE, groups |-> <<>>])

\* One pass of the body of the trigger loop: whether the trigger ends the
\* loop as the matched trigger, and regex_groups if it does.
MatchTrigger(trigger, processed_text) ==
    LET trigger_phrase == Lower(Get(trigger, "trigger_phrase", <<>>))
        match_type == Get(trigger, "match_type", "exact")
    IN  IF ~Get(trigger, "is_active", FALSE)
        THEN [matched |-> FALSE, regex_groups |-> NoGroups]
        ELSE IF match_type = "exact" /\ processed_text = trigger_phrase
        THEN [matched |-> TRUE, regex_groups |-> NoGroups]
        ELSE IF match_type = "contains" /\ IsSubstring(trigger_phrase, processed_text)
        THEN [matched |-> TRUE, regex_groups |-> NoGroups]
        ELSE IF match_type = "regex"
        THEN Bind(RegexSearch(trigger_phrase, processed_text),
                  LAMBDA found :
                      [matched |-> found.matched,
                       regex_groups |-> IF found.matched THEN SomeGroups(found.groups)
                                        ELSE NoGroups])
        ELSE [matched |-> FALSE, regex_groups |-> NoGroups]

NoTrigger ==
    [has |-> {}, trigger_id |-> <<>>, trigger_phrase |-> <<>>, match_type |-> "",
     intent |-> "", is_active |-> FALSE, priority |-> 0]

NoMapping ==
    [has |-> {}, mapping_id |-> <<>>, trigger_id |-> <<>>, response_id |-> <<>>,
     conditions |-> <<>>, order_in_sequence |-> 0, is_active |-> FALSE]

\* a trigger loop that, when no trigger matches, ends with the last trigger
\* of the list as the matched one
RECURSIVE ScanTriggersOrLast(_, _, _)
ScanTriggersOrLast(sorted_triggers, i, processed_text) ==
    IF Len(sorted_triggers) = 0
    THEN [matched |-> FALSE, matched_trigger |-> NoTrigger, regex_groups |-> NoGroups]
    ELSE IF i >= Len(sorted_triggers)
    THEN [matched |-> TRUE, matched_trigger |-> sorted_triggers[Len(sorted_triggers)],
          regex_groups |-> NoGroups]
    ELSE Bind(MatchTrigger(sorted_triggers[i], processed_text),
              LAMBDA m :
                  IF m.matched
                  THEN [matched |-> TRUE, matched_trigger |-> sorted_triggers[i],
                        regex_groups |-> m.regex_groups]
                  ELSE ScanTriggersOrLast(sorted_triggers, i + 1, processed_text))

\* the trigger loop: the first trigger of sorted_triggers, from place i,
\* that matches
RECURSIVE ScanTriggers(_, _, _)
ScanTriggers(sorted_triggers, i, processed_text) ==
    IF i > Len(sorted_triggers)
    THEN [matched |-> FALSE, matched_trigger |-> NoTrigger, regex_groups |-> NoGroups]
    ELSE Bind(MatchTrigger(sorted_triggers[i], processed_text),
              LAMBDA m :
                  IF m.matched
                  THEN [matched |-> TRUE, matched_trigger |-> sorted_triggers[i],
                        regex_groups |-> m.regex_groups]
                  ELSE ScanTriggers(sorted_triggers, i + 1, processed_text))

\* the mappings of the matched trigger, whether active or not
ApplicableMappingsAnyState(maps, matched_trigger) ==
    SelectSeq(maps,
              LAMBDA mapping :
                  Get(mapping, "trigger_id", <<>>) = Get(matched_trigger, "trigger_id", <<>>))

\* the mappings of the matched trigger that are active, in list order
ApplicableMappings(maps, matched_trigger) ==
    SelectSeq(maps,
              LAMBDA mapping :
                  /\ Get(mapping, "trigger_id", <<>>) = Get(matched_trigger, "trigger_id", <<>>)
                  /\ Get(mapping, "is_active", FALSE))

\* None, or the dict process_message returns
NoReply == [reply |-> FALSE, text |-> <<>>, response_type |-> "", attachments |-> <<>>]

\* crm_module.find_customer(identifier): customers.get(identifier)
find_customer(crm, identifier) ==
    IF DictHas(crm.customers, identifier)
    THEN SomeData(DictGet(crm.customers, identifier))
    ELSE NoData

\* a user id is None, an int or a str
NoUser == [kind |-> "none", n |-> 0, s |-> <<>>]

IntUser(n) == [kind |-> "int", n |-> n, s |-> <<>>]

StrUser(s) == [kind |-> "str", n |-> 0, s |-> s]

UserTruthy(u) == (u.kind = "int" /\ u.n # 0) \/ (u.kind = "str" /\ u.s # <<>>)

StrOfUser(u) == IF u.kind = "int" THEN IntToStr(u.n) ELSE u.s

\* a response check that does not look at is_active
ResponsePresent(resps, response_id) == DictHas(resps, response_id)

\* response_template and response_template.get("is_active")
ResponseActive(resps, response_id) ==
    DictHas(resps, response_id) /\ Get(DictGet(resps, response_id), "is_active", FALSE)

\* a process_message that asks the CRM as soon as a trigger has matched,
\* before the mapping and the response are looked at
SelectResponseLookupFirst(resps, maps, crm, user_telegram_id, crm_data, processed_text, scan) ==
    LET applicable_mappings == ApplicableMappings(maps, scan.matched_trigger)
        selected_mapping == IF scan.matched /\ Len(applicable_mappings) > 0
                            THEN SortMappings(applicable_mappings)[1]
                            ELSE NoMapping
        response_id == Get(selected_mapping, "response_id", <<>>)
        found == /\ scan.matched
                 /\ Len(applicable_mappings) > 0
                 /\ response_id # <<>>
                 /\ DictHas(resps, response_id)
        response_template == DictGet(resps, response_id)
        rendered == found /\ ResponseActive(resps, response_id)
        lookup == /\ scan.matched
                  /\ ~(crm_data.some /\ Len(crm_data.d) > 0)
                  /\ crm.some
                  /\ UserTruthy(user_telegram_id)
        current_crm_data == IF lookup THEN find_customer(crm, StrOfUser(user_telegram_id))
                            ELSE crm_data
    IN  [processed_text |-> processed_text,
         matched |-> scan.matched,
         matched_trigger |-> scan.matched_trigger,
         regex_groups |-> scan.regex_groups,
         applicable_mappings |-> IF scan.matched THEN applicable_mappings ELSE <<>>,
         selected_mapping |-> selected_mapping,
         response_found |-> found,
         rendered |-> rendered,
         crm_calls |-> IF lookup THEN 1 ELSE 0,
         current_crm_data |-> IF rendered THEN current_crm_data ELSE NoData,
         result |-> IF rendered
                    THEN [reply |-> TRUE,
                          text |-> _format_response(
                                      Get(response_template, "response_text", <<>>),
                                      current_crm_data, scan.regex_groups),
                          response_type |-> Get(response_template, "response_type", "text"),
                          attachments |-> Get(response_template, "attachments", <<>>)]
                    ELSE NoReply]

\* process_message from the end of the trigger loop: the mapping, the
\* response, the CRM lookup and the result
SelectResponse(resps, maps, crm, user_telegram_id, crm_data, processed_text, scan) ==
    LET applicable_mappings == ApplicableMappings(maps, scan.matched_trigger)
        selected_mapping == IF scan.matched /\ Len(applicable_mappings) > 0
                            THEN SortMappings(applicable_mappings)[1]
                            ELSE NoMapping
        response_id == Get(selected_mapping, "response_id", <<>>)
        found == /\ scan.matched
                 /\ Len(applicable_mappings) > 0
                 /\ response_id # <<>>
                 /\ DictHas(resps, response_id)
        response_template == DictGet(resps, response_id)
        rendered == found /\ ResponseActive(resps, response_id)
        lookup == /\ rendered
                  /\ ~(crm_data.some /\ Len(crm_data.d) > 0)
                  /\ crm.some
                  /\ UserTruthy(user_telegram_id)
        current_crm_data == IF lookup THEN find_customer(crm, StrOfUser(user_telegram_id))
                            ELSE crm_data
    IN  [processed_text |-> processed_text,
         matched |-> scan.matched,
         matched_trigger |-> scan.matched_trigger,
         regex_groups |-> scan.regex_groups,
         applicable_mappings |-> IF scan.matched THEN applicable_mappings ELSE <<>>,
         selected_mapping |-> selected_mapping,
         response_found |-> found,
         rendered |-> rendered,
         crm_calls |-> IF lookup THEN 1 ELSE 0,
         current_crm_data |-> IF rendered THEN current_crm_data ELSE NoData,
         result |-> IF rendered
                    THEN [reply |-> TRUE,
                          text |-> _format_response(
                                      Get(response_template, "response_text", <<>>),
                                      current_crm_data, scan.regex_groups),
                          response_type |-> Get(response_template, "response_type", "text"),
                          attachments |-> Get(response_template, "attachments", <<>>)]
                    ELSE NoReply]

\* a process_message that passes over the triggers that have no active
\* mapping and goes on to the next trigger that matches
process_message_run_fallthrough(trigs, resps, maps, crm, message_text, user_telegram_id, crm_data) ==
    Bind(_preprocess_message(message_text),
         LAMBDA processed_text :
             Bind(ScanTriggers(SelectSeq(SortTriggers(DictValues(trigs)),
                                         LAMBDA t : Len(ApplicableMappings(maps, t)) > 0),
                               1, processed_text),
                  LAMBDA scan :
                      SelectResponse(resps, maps, crm, user_telegram_id, crm_data,
                                     processed_text, scan)))

\* process_message: its locals and its result
process_message_run(trigs, resps, maps, crm, message_text, user_telegram_id, crm_data) ==
    Bind(_preprocess_message(message_text),
         LAMBDA processed_text :
             Bind(ScanTriggers(SortTriggers(DictValues(trigs)), 1, processed_text),
                  LAMBDA scan :
                      SelectResponse(resps, maps, crm, user_telegram_id, crm_data,
                                     processed_text, scan)))

(***************************************************************************)
(* The texts the operations are called with                                *)
(***************************************************************************)
\* "hello"
S_hello ==
    <<"h", "e", "l", "l", "o">>

\* "Hello"
S_Hello ==
    <<"H", "e", "l", "l", "o">>

\* " hello "
S_hello_padded ==
    <<" ", "h", "e", "l", "l", "o", " ">>

\* "HELLO"
S_HELLO ==
    <<"H", "E", "L", "L", "O">>

\* "hello there"
S_hello_there ==
    <<"h", "e", "l", "l", "o", " ", "t", "h", "e", "r", "e">>

\* " Hello": a phrase with leading whitespace
S_Hello_lead ==
    <<" ", "H", "e", "l", "l", "o">>

\* "lo ": a phrase with trailing whitespace
S_lo_trail ==
    <<"l", "o", " ">>

\* "yo"
S_yo ==
    <<"y", "o">>

\* "hi"
S_hi ==
    <<"h", "i">>

\* "a\tb"
S_a_tab_b ==
    <<"a", "\t", "b">>

\* "is it"
S_is_it ==
    <<"i", "s", " ", "i", "t">>

\* r"\T": re.error (bad escape), and r"\t" once lowercased
P_bad_escape ==
    <<"\\", "T">>

\* "(": re.error (missing parenthesis)
P_open_paren ==
    <<"(">>

\* r"is (.+)"
P_is_group ==
    <<"i", "s", " ", "(", ".", "+", ")">>

\* r"hi( there)?"
P_hi_optional ==
    <<"h", "i", "(", " ", "t", "h", "e", "r", "e", ")", "?">>

\* "hi there"
S_hi_there ==
    <<"h", "i", " ", "t", "h", "e", "r", "e">>

\* "Hello there {crm_name}!"
T_hello_crm ==
    <<"H", "e", "l", "l", "o", " ", "t", "h", "e", "r", "e", " ", "{", "c",
      "r", "m", "_", "n", "a", "m", "e", "}", "!">>

\* "{regex_group_1}|{regex_group_2}"
T_groups ==
    <<"{", "r", "e", "g", "e", "x", "_", "g", "r", "o", "u", "p", "_", "1",
      "}", "|", "{", "r", "e", "g", "e", "x", "_", "g", "r", "o", "u", "p",
      "_", "2", "}">>

\* "ok"
T_plain ==
    <<"o", "k">>

\* "name"
K_name ==
    <<"n", "a", "m", "e">>

\* "status"
K_status ==
    <<"s", "t", "a", "t", "u", "s">>

\* "Test User"
V_test_user ==
    <<"T", "e", "s", "t", " ", "U", "s", "e", "r">>

\* "VIP"
V_vip ==
    <<"V", "I", "P">>

\* "{crm_status}": a value that reads as a placeholder
V_status_token ==
    <<"{", "c", "r", "m", "_", "s", "t", "a", "t", "u", "s", "}">>

\* "123"
U_123 ==
    <<"1", "2", "3">>

(***************************************************************************)
(* The data files: json.dump and json.load                                 *)
(*                                                                         *)
(* A JSON document is the tree of its values.  A string holds its text as  *)
(* written between the quotes (escaped), a number holds its digits; the    *)
(* white space and the punctuation of the file are left out.  The texts    *)
(* are ASCII: the \uXXXX escapes of other characters are not modelled.     *)
(***************************************************************************)
JNull == [t |-> "null", s |-> <<>>, items |-> <<>>]

JBool(b) == [t |-> IF b THEN "true" ELSE "false", s |-> <<>>, items |-> <<>>]

JInt(n) == [t |-> "number", s |-> IntToStr(n), items |-> <<>>]

\* a json.dump that writes every character of a str as it is
JsonRawChar(c) == <<c>>

\* the escapes json.dump writes inside a string
JsonEscapeChar(c) ==
    IF c = "\"" THEN <<"\\", "\"">>
    ELSE IF c = "\\" THEN <<"\\", "\\">>
    ELSE IF c = "\n" THEN <<"\\", "n">>
    ELSE IF c = "\r" THEN <<"\\", "r">>
    ELSE IF c = "\t" THEN <<"\\", "t">>
    ELSE IF c = "\f" THEN <<"\\", "f">>
    ELSE <<c>>

JsonEscape(chars) == Flatten([i \in 1..Len(chars) |-> JsonEscapeChar(chars[i])])

JStr(chars) == [t |-> "string", s |-> JsonEscape(chars), items |-> <<>>]

\* a str that is one of the engine's words ("exact", "text", a field name):
\* it has nothing to escape and is kept as one unit
JWord(word) == [t |-> "string", s |-> <<word>>, items |-> <<>>]

JArr(items) == [t |-> "array", s |-> <<>>, items |-> items]

\* items: the members [key, val] of the object, key as written in the file
JObj(items) == [t |-> "object", s |-> <<>>, items |-> items]

\* the character an escape \c stands for, "" when json.load rejects it
JsonEscaped(c) ==
    IF c \in {"\"", "\\", "/"} THEN c
    ELSE IF c = "n" THEN "\n"
    ELSE IF c = "r" THEN "\r"
    ELSE IF c = "t" THEN "\t"
    ELSE IF c = "f" THEN "\f"
    ELSE ""

\* json.load of the text of a string from place i: ok is FALSE for an invalid
\* escape and for a quote or a control character that is not escaped
RECURSIVE JsonUnescapeFrom(_, _)
JsonUnescapeFrom(text, i) ==
    IF i > Len(text) THEN [ok |-> TRUE, s |-> <<>>]
    ELSE IF text[i] = "\\"
    THEN IF i = Len(text) \/ JsonEscaped(text[i + 1]) = ""
         THEN [ok |-> FALSE, s |-> <<>>]
         ELSE Bind(JsonUnescapeFrom(text, i + 2),
                   LAMBDA rest : [ok |-> rest.ok,
                                  s |-> <<JsonEscaped(text[i + 1])>> \o rest.s])
    ELSE IF text[i] \in {"\"", "\n", "\r", "\t", "\f"}
    THEN [ok |-> FALSE, s |-> <<>>]
    ELSE Bind(JsonUnescapeFrom(text, i + 1),
              LAMBDA rest : [ok |-> rest.ok, s |-> <<text[i]>> \o rest.s])

JsonUnescape(text) == JsonUnescapeFrom(text, 1)

\* the digits of a JSON number: no sign, no leading zero
JsonDigitsValid(digits) ==
    /\ Len(digits) > 0
    /\ \A i \in 1..Len(digits) : IsDigit(digits[i])
    /\ Len(digits) > 1 => digits[1] # "0"

RECURSIVE StrToInt(_, _)
StrToInt(digits, n) ==
    IF n = 0 THEN 0
    ELSE StrToInt(digits, n - 1) * 10
             + (CHOOSE d \in 0..9 : DigitChars[d + 1] = digits[n])

\* json.load does not raise JSONDecodeError on the document
RECURSIVE JsonValid(_)
JsonValid(doc) ==
    IF doc.t = "string" THEN JsonUnescape(doc.s).ok
    ELSE IF doc.t = "number" THEN JsonDigitsValid(doc.s)
    ELSE IF doc.t = "array" THEN \A i \in 1..Len(doc.items) : JsonValid(doc.items[i])
    ELSE IF doc.t = "object"
    THEN \A i \in 1..Len(doc.items) :
            JsonUnescape(doc.items[i].key).ok /\ JsonValid(doc.items[i].val)
    ELSE TRUE

\* the Python value of a JSON string, number, true/false
JText(v) == JsonUnescape(v.s).s

JNumber(v) == StrToInt(v.s, Len(v.s))

JTruth(v) == v.t = "true"

\* a member of an object by the name of a field
JHas(obj, name) == \E i \in 1..Len(obj.items) : obj.items[i].key = <<name>>

JField(obj, name) ==
    obj.items[CHOOSE i \in 1..Len(obj.items) : obj.items[i].key = <<name>>].val

TextField(obj, name) == IF JHas(obj, name) THEN JText(JField(obj, name)) ELSE <<>>

WordField(obj, name) == IF JHas(obj, name) THEN JField(obj, name).s[1] ELSE ""

IntField(obj, name) == IF JHas(obj, name) THEN JNumber(JField(obj, name)) ELSE 0

BoolField(obj, name) == IF JHas(obj, name) THEN JTruth(JField(obj, name)) ELSE FALSE

\* the members of a record that it has, in the order the record was built
Members(has, items) == SelectSeq(items, LAMBDA item : item.key[1] \in has)

Member(name, val) == [key |-> <<name>>, val |-> val]

\* json.dump of a trigger, a response, a mapping
EncodeTrigger(trigger) ==
    JObj(Members(trigger.has,
                 <<Member("trigger_id", JStr(trigger.trigger_id)),
                   Member("trigger_phrase", JStr(trigger.trigger_phrase)),
                   Member("match_type", JWord(trigger.match_type)),
                   Member("intent", JWord(trigger.intent)),
                   Member("is_active", JBool(trigger.is_active)),
                   Member("priority", JInt(trigger.priority))>>))

EncodeResponse(response) ==
    JObj(Members(response.has,
                 <<Member("response_id", JStr(response.response_id)),
                   Member("response_text", JStr(response.response_text)),
                   Member("response_type", JWord(response.response_type)),
                   Member("attachments",
                          JArr([i \in 1..Len(response.attachments) |->
                                   JStr(response.attachments[i])])),
                   Member("follow_up_action_id",
                          IF response.follow_up_action_id.some
                          THEN JStr(response.follow_up_action_id.s)
                          ELSE JNull),
                   Member("is_active", JBool(response.is_active))>>))

EncodeMapping(mapping) ==
    JObj(Members(mapping.has,
                 <<Member("mapping_id", JStr(mapping.mapping_id)),
                   Member("trigger_id", JStr(mapping.trigger_id)),
                   Member("response_id", JStr(mapping.response_id)),
                   Member("conditions",
                          JObj([i \in 1..Len(mapping.conditions) |->
                                   [key |-> JsonEscape(mapping.conditions[i].key),
                                    val |-> JStr(mapping.conditions[i].val)]])),
                   Member("order_in_sequence", JInt(mapping.order_in_sequence)),
                   Member("is_active", JBool(mapping.is_active))>>))

\* json.load of a trigger, a response, a mapping
DecodeTrigger(obj) ==
    [has |-> {name \in TriggerKeys : JHas(obj, name)},
     trigger_id |-> TextField(obj, "trigger_id"),
     trigger_phrase |-> TextField(obj, "trigger_phrase"),
     match_type |-> WordField(obj, "match_type"),
     intent |-> WordField(obj, "intent"),
     is_active |-> BoolField(obj, "is_active"),
     priority |-> IntField(obj, "priority")]

DecodeResponse(obj) ==
    [has |-> {name \in ResponseKeys : JHas(obj, name)},
     response_id |-> TextField(obj, "response_id"),
     response_text |-> TextField(obj, "response_text"),
     response_type |-> WordField(obj, "response_type"),
     attachments |-> IF JHas(obj, "attachments")
                     THEN [i \in 1..Len(JField(obj, "attachments").items) |->
                              JText(JField(obj, "attachments").items[i])]
                     ELSE <<>>,
     follow_up_action_id |-> IF JHas(obj, "follow_up_action_id")
                                 /\ JField(obj, "follow_up_action_id").t = "string"
                             THEN Some(TextField(obj, "follow_up_action_id"))
                             ELSE NoneVal,
     is_active |-> BoolField(obj, "is_active")]

DecodeMapping(obj) ==
    [has |-> {name \in MappingKeys : JHas(obj, name)},
     mapping_id |-> TextField(obj, "mapping_id"),
     trigger_id |-> TextField(obj, "trigger_id"),
     response_id |-> TextField(obj, "response_id"),
     conditions |-> IF JHas(obj, "conditions")
                    THEN [i \in 1..Len(JField(obj, "conditions").items) |->
                             Entry(JsonUnescape(JField(obj, "conditions").items[i].key).s,
                                   JText(JField(obj, "conditions").items[i].val))]
                    ELSE <<>>,
     order_in_sequence |-> IntField(obj, "order_in_sequence"),
     is_active |-> BoolField(obj, "is_active")]

\* a data file: missing, bytes that are not text in the encoding open() reads
\* with, text that is not JSON, or the text of a JSON document
MissingFile == [kind |-> "missing", doc |-> JNull]

UndecodableFile == [kind |-> "undecodable", doc |-> JNull]

MalformedFile == [kind |-> "malformed", doc |-> JNull]

JsonFile(doc) == [kind |-> "json", doc |-> doc]

\* json.dump(self.triggers, f), json.dump(self.responses, f),
\* json.dump(self.mappings, f)
_save_triggers(trigs) ==
    JsonFile(JObj([i \in 1..Len(trigs) |->
                      [key |-> JsonEscape(trigs[i].key), val |-> EncodeTrigger(trigs[i].val)]]))

_save_responses(resps) ==
    JsonFile(JObj([i \in 1..Len(resps) |->
                      [key |-> JsonEscape(resps[i].key), val |-> EncodeResponse(resps[i].val)]]))

_save_mappings(maps) ==
    JsonFile(JArr([i \in 1..Len(maps) |-> EncodeMapping(maps[i])]))

\* the value json.load returns for the document of each file
DecodeTriggers(doc) ==
    [i \in 1..Len(doc.items) |->
        Entry(JsonUnescape(doc.items[i].key).s, DecodeTrigger(doc.items[i].val))]

DecodeResponses(doc) ==
    [i \in 1..Len(doc.items) |->
        Entry(JsonUnescape(doc.items[i].key).s, DecodeResponse(doc.items[i].val))]

DecodeMappings(doc) == [i \in 1..Len(doc.items) |-> DecodeMapping(doc.items[i])]

\* _load_data(file_path, default_data): data is what it returns, file is the
\* file afterwards, raised is TRUE when an exception leaves it.  A missing
\* file is created holding empty (json.dump of {} or of []); text that is not
\* JSON gives default_data ({} or [], both empty here); bytes that are not
\* text make f.read() raise UnicodeDecodeError, which is not caught.  loaded
\* is the value of the document when the file holds one.
_load_data(file, empty, loaded) ==
    IF file.kind = "missing"
    THEN [raised |-> FALSE, data |-> <<>>, file |-> JsonFile(empty)]
    ELSE IF file.kind = "undecodable"
    THEN [raised |-> TRUE, data |-> <<>>, file |-> file]
    ELSE IF file.kind = "malformed" \/ ~JsonValid(file.doc)
    THEN [raised |-> FALSE, data |-> <<>>, file |-> file]
    ELSE [raised |-> FALSE, data |-> loaded, file |-> file]

(***************************************************************************)
(* DeploymentConfig and Deployment: the environments of a configuration,   *)
(* in insertion order, and the steps of a deploy.  Names, urls and         *)
(* messages are strings; "" stands for None where a value is only tested   *)
(* for being set.                                                          *)
(***************************************************************************)
\* an environment configuration, as far as the code reads it
EnvConfig(name, webhook_url, service_name) ==
    [name |-> name, webhook_url |-> webhook_url, service_name |-> service_name]

\* del d[key]
DictDel(d, key) == SelectSeq(d, LAMBDA e : e.key # key)

\* self.config of DeploymentConfig() without a file: the environments and
\* default_environment
DefaultConfig ==
    [environments |->
        <<Entry("local", EnvConfig("Local Development", "", "")),
          Entry("staging", EnvConfig("Staging", "https://staging.example.com/webhook",
                                     "telegram-bot-staging")),
          Entry("production", EnvConfig("Production", "https://example.com/webhook",
                                        "telegram-bot"))>>,
     default_environment |-> "local"]

\* self.config of Deployment() without a file: the environments (which have
\* no service_name), default_environment and deployment_history
DefaultDeployment ==
    [environments |->
        <<Entry("local", EnvConfig("Local Development", "", "")),
          Entry("staging", EnvConfig("Staging", "https://staging.example.com/webhook", "")),
          Entry("production", EnvConfig("Production", "https://example.com/webhook", ""))>>,
     default_environment |-> "local",
     deployment_history |-> <<>>]

\* current_environment = None
NoEnv == "None"

\* the environments the tests add
NewEnvironment == EnvConfig("New Environment", "", "")

TestEnvironment ==
    EnvConfig("Test Environment", "https://test.example.com/webhook", "telegram-bot-test")

\* DeploymentConfig.set_default_environment on config
set_default_environment_config(cfg, env_name) ==
    IF ~DictHas(cfg.environments, env_name) THEN cfg
    ELSE [cfg EXCEPT !.default_environment = env_name]

\* DeploymentConfig.add_environment
add_environment_config(cfg, env_name, env_config) ==
    [cfg EXCEPT !.environments = DictSet(cfg.environments, env_name, env_config)]

\* DeploymentConfig.update_environment
update_environment_config(cfg, env_name, env_config) ==
    IF ~DictHas(cfg.environments, env_name) THEN cfg
    ELSE [cfg EXCEPT !.environments = DictSet(cfg.environments, env_name, env_config)]

\* DeploymentConfig.remove_environment: a removed default is replaced by the
\* first environment left, or by "local" when none is left
remove_environment_config(cfg, env_name) ==
    IF ~DictHas(cfg.environments, env_name) THEN cfg
    ELSE LET remaining == DictDel(cfg.environments, env_name)
         IN  [cfg EXCEPT
                !.environments = remaining,
                !.default_environment =
                    IF cfg.default_environment # env_name THEN cfg.default_environment
                    ELSE IF Len(remaining) > 0 THEN remaining[1].key
                    ELSE "local"]

\* Deployment.remove_environment: current_environment afterwards
current_after_remove(cfg, current, env_name) ==
    LET remaining == DictDel(cfg.environments, env_name)
    IN  IF ~DictHas(cfg.environments, env_name) \/ current # env_name THEN current
        ELSE IF DictHas(remaining, cfg.default_environment) THEN cfg.default_environment
        ELSE IF Len(remaining) > 0 THEN remaining[1].key
        ELSE NoEnv

\* the result of a step of deploy: a dict with status, or an exception
StepOk == [status |-> "ok", raised |-> FALSE, error |-> ""]

StepStatus(status, error) == [status |-> status, raised |-> FALSE, error |-> error]

StepRaised(error) == [status |-> "raised", raised |-> TRUE, error |-> error]

\* the state of source_dir: no directory, a directory that lacks one of the
\* required files, a directory that holds them all
SourceDirs == {"missing", "incomplete", "complete"}

\* _prepare_deployment
_prepare_deployment(source_dir) ==
    IF source_dir = "incomplete" THEN StepStatus("error", "Missing required files")
    ELSE StepOk

\* _restart_service: restart is what subprocess.run does, "ok", a
\* CalledProcessError (which is caught) or another exception
_restart_service(env_config, options, restart) ==
    LET service_name == IF options.service_name # "" THEN options.service_name
                        ELSE env_config.service_name
    IN  IF service_name = "" \/ restart = "ok" THEN StepOk
        ELSE IF restart = "CalledProcessError"
        THEN StepStatus("error", "Error restarting systemd service")
        ELSE StepRaised(restart)

\* _execute_deployment: io is what writing the files does, "ok" or the
\* exception raised; the dict _restart_service returns is not looked at
_execute_deployment(env_config, options, io, restart) ==
    IF io # "ok" THEN StepRaised(io)
    ELSE IF options.restart /\ _restart_service(env_config, options, restart).raised
    THEN _restart_service(env_config, options, restart)
    ELSE StepOk

\* _verify_deployment: with a webhook url it evaluates requests.get, and the
\* module never imports requests, so that a NameError leaves it (the except
\* clause names requests as well); without one it returns ok
_verify_deployment(env_config) ==
    IF env_config.webhook_url = "" THEN StepOk
    ELSE StepRaised("NameError")

\* the dict deploy returns: keys is the set of its keys
DeployResult(status, deployment_id, error) ==
    [keys |-> {"status"}
              \cup (IF deployment_id # 0
                    THEN {"deployment_id", "environment", "start_time", "end_time",
                          "duration"}
                    ELSE {})
              \cup (IF status = "ok" THEN {"message"} ELSE {})
              \cup (IF status = "error" THEN {"error"} ELSE {}),
     status |-> status, deployment_id |-> deployment_id, error |-> error]

\* a record of deployment_history
DeploymentRecord(deployment_id, env_name, status, error) ==
    [id |-> deployment_id, environment |-> env_name, status |-> status, error |-> error]

\* deploy(env_name, source_dir, options) at the second now of the clock, with
\* the outcomes io and restart of the outside world: the dict returned and
\* deployment_history afterwards.  deployment_id is deploy_<now>; an
\* exception of a step is caught and recorded.
deploy_run(cfg, current, env_name, source_dir, options, now, io, restart) ==
    LET name == IF env_name = NoEnv THEN current ELSE env_name
        history == cfg.deployment_history
        stay(result) == [value |-> result, history |-> history]
    IN  IF ~DictHas(cfg.environments, name)
        THEN stay(DeployResult("error", 0, "Environment not found"))
        ELSE IF source_dir = "missing"
        THEN stay(DeployResult("error", 0, "Source directory not found"))
        ELSE LET env_config == DictGet(cfg.environments, name)
                 prepared == _prepare_deployment(source_dir)
                 executed == _execute_deployment(env_config, options, io, restart)
                 verified == _verify_deployment(env_config)
             IN  IF prepared.status # "ok"
                 THEN stay(DeployResult(prepared.status, 0, prepared.error))
                 ELSE IF executed.raised
                 THEN [value |-> DeployResult("error", now, executed.error),
                       history |-> Append(history, DeploymentRecord(now, name, "error",
                                                                    executed.error))]
                 ELSE IF verified.raised
                 THEN [value |-> DeployResult("error", now, verified.error),
                       history |-> Append(history, DeploymentRecord(now, name, "error",
                                                                    verified.error))]
                 ELSE [value |-> DeployResult("ok", now, ""),
                       history |-> Append(history, DeploymentRecord(now, name, "success",
                                                                    ""))]


(***************************************************************************)
(* SystemMonitor: the log, the activity lists                              *)
(***************************************************************************)
\* self.logs = deque(maxlen=1000)
LogsMaxLen == 1000

\* the length log_activity trims a user's activity list to
ActivityMaxLen == 100

\* user_id=None
NoUserId == -1

\* log_entry of _add_log: "user_id" is a key only when user_id is not None;
\* extra is "None", or the text of the dict passed
LogEntry(timestamp, level, message, user_id, extra) ==
    [has |-> IF user_id = NoUserId THEN {"timestamp", "level", "message"}
             ELSE {"timestamp", "level", "message", "user_id"},
     timestamp |-> timestamp,
     level |-> level,
     message |-> message,
     user_id |-> user_id,
     extra |-> extra]

\* deque.append on a deque with maxlen: a full deque drops its first element
DequeAppend(deque, entry) ==
    IF Len(deque) >= LogsMaxLen THEN Append(Tail(deque), entry)
    ELSE Append(deque, entry)

\* the entry log_activity appends to the user's list
ActivityEntry(timestamp, activity, is_admin) ==
    [timestamp |-> timestamp, activity |-> activity, is_admin |-> is_admin]

\* a trim that keeps the first entries of the list, [:100]
log_activity_list_head(activities, entry) ==
    LET appended == Append(activities, entry)
    IN  IF Len(appended) > ActivityMaxLen THEN SubSeq(appended, 1, ActivityMaxLen)
        ELSE appended

\* the user's list after log_activity: append, then keep the last 100
log_activity_list(activities, entry) ==
    LET appended == Append(activities, entry)
    IN  IF Len(appended) > ActivityMaxLen
        THEN SubSeq(appended, Len(appended) - ActivityMaxLen + 1, Len(appended))
        ELSE appended

\* self.user_activity[user_id] of the defaultdict(list)
ActivitiesOf(activity, user_id) ==
    IF DictHas(activity, user_id) THEN DictGet(activity, user_id) ELSE <<>>

\* the thread that calls the monitor: pc is where it stands in log_error or
\* log_activity, entry is the log entry it is adding, error_count and
\* user_activity are the values at the call, calls counts the calls made
MonitorCall(pc, op, entry, activity, count_before, activity_before, calls) ==
    [pc |-> pc, op |-> op, entry |-> entry, activity |-> activity,
     error_count |-> count_before, user_activity |-> activity_before,
     calls |-> calls]

NoMonitorCall ==
    MonitorCall("idle", "none", LogEntry(0, "", "", NoUserId, "None"), "", 0, <<>>, 0)

\* the monitoring thread: pc is where it stands in _monitoring_loop, stats is
\* how many times it has run _log_system_stats
MonitoringThread(pc, stats, entry) == [pc |-> pc, stats |-> stats, entry |-> entry]

(***************************************************************************)
(* ServiceIntegration: the configuration and the active services           *)
(***************************************************************************)
\* a service_config: "enabled" is a key or not
ServiceConfig(type, has_enabled, enabled) ==
    [has |-> IF has_enabled THEN {"type", "enabled"} ELSE {"type"},
     type |-> type,
     enabled |-> enabled]

\* the entry of self.services for an initialized service
ActiveService(service_config) ==
    [config |-> service_config, status |-> "initialized", last_check |-> "None"]

\* self.config: {} has no "services" key
IntegrationConfig(has_services, service_configs) ==
    [has_services |-> has_services, services |-> service_configs]

\* what a call on a ServiceIntegration leaves behind
ServiceReturned(op, service_name, value, status) ==
    [op |-> op, service_name |-> service_name, value |-> value, status |-> status]

NoServiceReturn == ServiceReturned("none", "", TRUE, "")

(***************************************************************************)
(* The engine as a state machine                                           *)
(***************************************************************************)
\* bounds on the stores an execution builds and on the stores it loads
MaxTriggers == 2

MaxResponses == 2

MaxMappings == 2

MaxAdds == 4

MaxLoadedTriggers == 2

VARIABLES
    triggers,        \* self.triggers: trigger_id -> trigger, in insertion order
    responses,       \* self.responses: response_id -> response
    mappings,        \* self.mappings: the list of mappings
    triggers_file,   \* the content of sre_triggers.json
    responses_file,  \* the content of sre_responses.json
    mappings_file,   \* the content of sre_mappings.json
    crm_module,      \* self.crm_module: None (some = FALSE) or a CRM
    ret,             \* the last call: its arguments, its result, its locals
    config,          \* DeploymentConfig.config: environments, default_environment
    deployment_config,    \* Deployment.config, whose environments are also
                          \* Deployment.environments
    current_environment,  \* Deployment.current_environment
    returned,        \* the last call on a DeploymentConfig or a Deployment
    logs,            \* SystemMonitor.logs, the deque of log entries
    user_activity,   \* SystemMonitor.user_activity: user id -> activity list
    error_count,     \* SystemMonitor.error_count
    log_file,        \* the monitor's log file: the lines written to it
    monitor_clock,   \* datetime.now() as the monitor reads it
    caller,          \* the thread calling log_error and log_activity
    monitoring_thread,    \* the thread running _monitoring_loop
    integration_config,   \* ServiceIntegration.config
    services,        \* ServiceIntegration.services, the active services
    service_returned \* the last call on a ServiceIntegration

\* the fields of the engine and its files
engine_vars ==
    <<triggers, responses, mappings, triggers_file, responses_file,
      mappings_file, crm_module, ret>>

\* the fields of the DeploymentConfig and of the Deployment
deployment_vars == <<config, deployment_config, current_environment, returned>>

\* the fields of the SystemMonitor and its two threads
monitor_vars ==
    <<logs, user_activity, error_count, log_file, monitor_clock, caller,
      monitoring_thread>>

\* the fields of the ServiceIntegration
integration_vars == <<integration_config, services, service_returned>>

\* the monitor and the integration handler together
service_vars == <<monitor_vars, integration_vars>>

vars == <<engine_vars, deployment_vars, service_vars>>

\* what a call on a DeploymentConfig or a Deployment leaves behind: value is
\* the bool or the dict returned
Returned(op, env_name, source_dir, value) ==
    [op |-> op, env_name |-> env_name, source_dir |-> source_dir, value |-> value]

NoReturn == Returned("none", "", "", TRUE)

\* DeploymentConfig() and Deployment() without a file, no call made yet
DeploymentConstructed ==
    /\ config = DefaultConfig
    /\ deployment_config = DefaultDeployment
    /\ current_environment = DefaultDeployment.default_environment
    /\ returned = NoReturn

\* SystemMonitor(log_file=...) just constructed: the monitoring thread has
\* been started and no call has been made
MonitorConstructed ==
    /\ logs = <<>>
    /\ user_activity = <<>>
    /\ error_count = 0
    /\ log_file = 0
    /\ monitor_clock = 0
    /\ caller = NoMonitorCall
    /\ monitoring_thread = MonitoringThread("collect", 0, NoMonitorCall.entry)

\* ServiceIntegration() without a configuration file
IntegrationConstructed ==
    /\ integration_config = IntegrationConfig(FALSE, <<>>)
    /\ services = <<>>
    /\ service_returned = NoServiceReturn

ServicesConstructed == MonitorConstructed /\ IntegrationConstructed

\* crm_module=None, and a CRM that knows the user "123"
NoCrm == [some |-> FALSE, customers |-> <<>>]

TestCrm ==
    [some |-> TRUE,
     customers |->
         <<Entry(U_123, <<Entry(K_name, V_test_user), Entry(K_status, V_vip)>>)>>]

CrmModules == {NoCrm, TestCrm}

\* the locals of a process_message that has not run
NoRun == process_message_run(<<>>, <<>>, <<>>, NoCrm, <<>>, NoUser, NoData)

\* what a call leaves behind; id is the id an add_* call returns, or None
Call(op, ok, error, id, trigger_id, response_id, message_text, user_telegram_id, crm_data, run) ==
    [op |-> op, ok |-> ok, error |-> error, id |-> id,
     trigger_id |-> trigger_id, response_id |-> response_id,
     message_text |-> message_text, user_telegram_id |-> user_telegram_id,
     crm_data |-> crm_data, run |-> run]

NoCall == Call("none", TRUE, "", NoneVal, <<>>, <<>>, <<>>, NoUser, NoData, NoRun)

\* the number of entries the stores hold
Adds == Len(triggers) + Len(responses) + Len(mappings)

\* __init__ with no data files: _load_data creates the three files empty
Init ==
    /\ triggers = <<>>
    /\ responses = <<>>
    /\ mappings = <<>>
    /\ triggers_file = JsonFile(JObj(<<>>))
    /\ responses_file = JsonFile(JObj(<<>>))
    /\ mappings_file = JsonFile(JArr(<<>>))
    /\ crm_module \in CrmModules
    /\ ret = NoCall
    /\ DeploymentConstructed
    /\ ServicesConstructed

add_trigger(trigger_phrase, match_type, intent, priority, is_active) ==
    /\ Len(triggers) < MaxTriggers
    /\ Adds < MaxAdds
    /\ triggers' = add_trigger_store(triggers, trigger_phrase, match_type, intent,
                                     priority, is_active)
    /\ triggers_file' = _save_triggers(triggers')
    /\ ret' = Call("add_trigger", TRUE, "", Some(TriggerId(Len(triggers) + 1)),
                   <<>>, <<>>, <<>>, NoUser, NoData, NoRun)
    /\ UNCHANGED <<responses, mappings, responses_file, mappings_file, crm_module, deployment_vars, service_vars>>

add_response(response_text, response_type, attachments, is_active) ==
    /\ Len(responses) < MaxResponses
    /\ Adds < MaxAdds
    /\ responses' = add_response_store(responses, response_text, response_type,
                                       attachments, is_active)
    /\ responses_file' = _save_responses(responses')
    /\ ret' = Call("add_response", TRUE, "", Some(ResponseId(Len(responses) + 1)),
                   <<>>, <<>>, <<>>, NoUser, NoData, NoRun)
    /\ UNCHANGED <<triggers, mappings, triggers_file, mappings_file, crm_module, deployment_vars, service_vars>>

\* an add_mapping that appends in memory and leaves the saving for later
add_mapping_batched(trigger_id, response_id, conditions, order_in_sequence, is_active) ==
    LET error == add_mapping_error(triggers, responses, trigger_id, response_id)
    IN  /\ error # "" \/ (Len(mappings) < MaxMappings /\ Adds < MaxAdds)
        /\ mappings' = add_mapping_store(triggers, responses, mappings, trigger_id,
                                         response_id, conditions, order_in_sequence,
                                         is_active)
        /\ ret' = Call("add_mapping", error = "", error,
                       IF error = "" THEN Some(MappingId(Len(mappings) + 1)) ELSE NoneVal,
                       trigger_id, response_id, <<>>, NoUser, NoData, NoRun)
        /\ UNCHANGED <<triggers, responses, triggers_file, responses_file,
                       mappings_file, crm_module, deployment_vars, service_vars>>

add_mapping(trigger_id, response_id, conditions, order_in_sequence, is_active) ==
    LET error == add_mapping_error(triggers, responses, trigger_id, response_id)
    IN  /\ error # "" \/ (Len(mappings) < MaxMappings /\ Adds < MaxAdds)
        /\ mappings' = add_mapping_store(triggers, responses, mappings, trigger_id,
                                         response_id, conditions, order_in_sequence,
                                         is_active)
        /\ mappings_file' = IF error = "" THEN _save_mappings(mappings') ELSE mappings_file
        /\ ret' = Call("add_mapping", error = "", error,
                       IF error = "" THEN Some(MappingId(Len(mappings) + 1)) ELSE NoneVal,
                       trigger_id, response_id, <<>>, NoUser, NoData, NoRun)
        /\ UNCHANGED <<triggers, responses, triggers_file, responses_file, crm_module, deployment_vars, service_vars>>

\* a process_message that remembers the call before it: after a reply it
\* answers nothing
process_message_once(message_text, user_telegram_id, crm_data) ==
    LET run == process_message_run(triggers, responses, mappings, crm_module,
                                   message_text, user_telegram_id, crm_data)
        replied == ret.op = "process_message" /\ ret.run.result.reply
    IN  /\ ret' = Call("process_message", TRUE, "", NoneVal, <<>>, <<>>,
                       message_text, user_telegram_id, crm_data,
                       IF replied THEN [run EXCEPT !.result = NoReply] ELSE run)
        /\ UNCHANGED <<triggers, responses, mappings, triggers_file, responses_file,
                       mappings_file, crm_module, deployment_vars, service_vars>>

\* a process_message that uses a mapping up: the mapping it selected is made
\* inactive and the mappings are saved
process_message_consuming(message_text, user_telegram_id, crm_data) ==
    LET run == process_message_run(triggers, responses, mappings, crm_module,
                                   message_text, user_telegram_id, crm_data)
    IN  /\ ret' = Call("process_message", TRUE, "", NoneVal, <<>>, <<>>,
                       message_text, user_telegram_id, crm_data, run)
        /\ mappings' = [i \in 1..Len(mappings) |->
                           IF run.result.reply /\ mappings[i] = run.selected_mapping
                           THEN [mappings[i] EXCEPT !.is_active = FALSE]
                           ELSE mappings[i]]
        /\ mappings_file' = _save_mappings(mappings')
        /\ UNCHANGED <<triggers, responses, triggers_file, responses_file, crm_module, deployment_vars, service_vars>>

process_message(message_text, user_telegram_id, crm_data) ==
    /\ ret' = Call("process_message", TRUE, "", NoneVal, <<>>, <<>>,
                   message_text, user_telegram_id, crm_data,
                   process_message_run(triggers, responses, mappings, crm_module,
                                       message_text, user_telegram_id, crm_data))
    /\ UNCHANGED <<triggers, responses, mappings, triggers_file, responses_file,
                   mappings_file, crm_module, deployment_vars, service_vars>>

\* SmartReplyEngine(crm_module=crm) over the data files as they are: the three
\* files are loaded in turn, and an exception of a load leaves the
\* constructor, so that no engine is made and the engine at hand stays
__init__(crm) ==
    \E t \in {_load_data(triggers_file, JObj(<<>>), DecodeTriggers(triggers_file.doc))},
       r \in {_load_data(responses_file, JObj(<<>>), DecodeResponses(responses_file.doc))},
       m \in {_load_data(mappings_file, JArr(<<>>), DecodeMappings(mappings_file.doc))} :
        LET raised == t.raised \/ r.raised \/ m.raised
        IN  /\ triggers_file' = t.file
            /\ responses_file' = IF t.raised THEN responses_file ELSE r.file
            /\ mappings_file' = IF t.raised \/ r.raised THEN mappings_file ELSE m.file
            /\ triggers' = IF raised THEN triggers ELSE t.data
            /\ responses' = IF raised THEN responses ELSE r.data
            /\ mappings' = IF raised THEN mappings ELSE m.data
            /\ crm_module' = IF raised THEN crm_module ELSE crm
            /\ ret' = Call("__init__", ~raised,
                           IF raised THEN "UnicodeDecodeError" ELSE "",
                           NoneVal, <<>>, <<>>, <<>>, NoUser, NoData, NoRun)
            /\ UNCHANGED <<deployment_vars, service_vars>>

\* the arguments of the calls of an execution that starts with empty stores
TriggerArg(trigger_phrase, match_type, priority, is_active) ==
    [trigger_phrase |-> trigger_phrase, match_type |-> match_type,
     intent |-> "greeting", priority |-> priority, is_active |-> is_active]

TriggerArgs ==
    {TriggerArg(S_hello, "exact", 10, TRUE),
     TriggerArg(S_hello, "contains", 5, TRUE),
     TriggerArg(S_hello, "contains", 5, FALSE)}

ResponseArg(response_text, is_active) ==
    [response_text |-> response_text, response_type |-> "text",
     attachments |-> <<>>, is_active |-> is_active]

ResponseArgs ==
    {ResponseArg(T_hello_crm, TRUE),
     ResponseArg(<<>>, TRUE),
     ResponseArg(T_plain, FALSE)}

\* conditions={"status": "VIP"}
VipOnly == SomeData(<<Entry(K_status, V_vip)>>)

\* the ids reach one past the largest id a store can hold, so that a call
\* can name a trigger or a response that does not exist
MappingArgs ==
    {[trigger_id |-> TriggerId(t), response_id |-> ResponseId(r),
      conditions |-> o[3], order_in_sequence |-> o[1], is_active |-> o[2]] :
        t \in 1..(MaxTriggers + 1), r \in 1..(MaxResponses + 1),
        o \in {<<1, TRUE, NoData>>, <<2, TRUE, VipOnly>>, <<1, FALSE, NoData>>}}

Messages == {S_Hello, S_yo}

\* (user_telegram_id, crm_data) of a process_message call
Contexts ==
    {<<NoUser, NoData>>,
     <<StrUser(U_123), NoData>>}

Next ==
    \/ \E a \in TriggerArgs :
          add_trigger(a.trigger_phrase, a.match_type, a.intent, a.priority, a.is_active)
    \/ \E a \in ResponseArgs :
          add_response(a.response_text, a.response_type, a.attachments, a.is_active)
    \/ \E a \in MappingArgs :
          add_mapping(a.trigger_id, a.response_id, a.conditions, a.order_in_sequence,
                      a.is_active)
    \/ \E message_text \in Messages, c \in Contexts :
          process_message(message_text, c[1], c[2])

Spec == Init /\ [][Next]_vars

(***************************************************************************)
(* The engine constructed over data files that exist: only process_message *)
(* is called                                                               *)
(***************************************************************************)
ResolveTriggerArgs ==
    {TriggerArg(S_hello, "exact", 10, TRUE),
     TriggerArg(S_hello, "exact", 5, FALSE),
     TriggerArg(S_Hello_lead, "exact", 10, TRUE),
     TriggerArg(S_hello, "contains", 5, TRUE),
     TriggerArg(S_hello, "contains", 10, TRUE),
     TriggerArg(S_lo_trail, "contains", 10, TRUE),
     TriggerArg(P_bad_escape, "regex", 10, TRUE),
     TriggerArg(P_open_paren, "regex", 5, TRUE),
     TriggerArg(P_is_group, "regex", 10, TRUE),
     TriggerArg(P_hi_optional, "regex", 10, TRUE)}

\* the trigger file after the add_trigger calls args[1], args[2], ...
RECURSIVE LoadTriggers(_, _)
LoadTriggers(args, n) ==
    IF n = 0 THEN <<>>
    ELSE add_trigger_store(LoadTriggers(args, n - 1), args[n].trigger_phrase,
                           args[n].match_type, args[n].intent, args[n].priority,
                           args[n].is_active)

TriggerFiles ==
    {LoadTriggers(args, Len(args)) :
        args \in UNION {[1..n -> ResolveTriggerArgs] : n \in 0..MaxLoadedTriggers}}

\* an entry of the mapping file
Mapping(n, trigger_id, response_id, conditions, order_in_sequence, is_active) ==
    [has |-> MappingKeys,
     mapping_id |-> MappingId(n),
     trigger_id |-> trigger_id,
     response_id |-> response_id,
     conditions |-> conditions,
     order_in_sequence |-> order_in_sequence,
     is_active |-> is_active]

\* the response file and the mapping file: one template per trigger, and
\* files where a mapping's response is inactive or is not in the response file
RenderFiles ==
    [responses |->
         add_response_store(add_response_store(<<>>, T_groups, "text", <<>>, TRUE),
                            T_hello_crm, "markdown", <<>>, TRUE),
     mappings |->
         <<Mapping(1, TriggerId(1), ResponseId(1), <<>>, 1, TRUE),
           Mapping(2, TriggerId(2), ResponseId(2), <<>>, 1, TRUE)>>]

GapFiles ==
    [responses |->
         add_response_store(add_response_store(<<>>, T_plain, "text", <<>>, FALSE),
                            T_hello_crm, "text", <<>>, TRUE),
     mappings |->
         <<Mapping(1, TriggerId(1), ResponseId(1), <<>>, 1, TRUE),
           Mapping(2, TriggerId(1), ResponseId(2), <<>>, 2, TRUE),
           Mapping(3, TriggerId(2), ResponseId(3), <<>>, 1, TRUE),
           Mapping(4, TriggerId(2), ResponseId(2), <<>>, 2, TRUE)>>]

\* mappings of one trigger with equal and with different order_in_sequence,
\* with and without conditions, and an inactive mapping of the smallest order
OrderFiles ==
    [responses |->
         add_response_store(add_response_store(<<>>, T_plain, "text", <<>>, TRUE),
                            T_hello_crm, "text", <<>>, TRUE),
     mappings |->
         <<Mapping(1, TriggerId(1), ResponseId(1), <<>>, 2, TRUE),
           Mapping(2, TriggerId(1), ResponseId(2), <<Entry(K_status, V_vip)>>, 1, TRUE),
           Mapping(3, TriggerId(1), ResponseId(1), <<>>, 1, TRUE),
           Mapping(4, TriggerId(2), ResponseId(1), <<>>, 1, FALSE),
           Mapping(5, TriggerId(2), ResponseId(2), <<Entry(K_name, V_vip)>>, 3, TRUE),
           Mapping(6, TriggerId(2), ResponseId(1), <<>>, 2, TRUE)>>]

DataFiles == {RenderFiles, GapFiles, OrderFiles}

\* __init__ with the data files present: _load_data reads each of them
InitResolve ==
    /\ triggers_file \in {_save_triggers(trigs) : trigs \in TriggerFiles}
    /\ \E files \in DataFiles :
          /\ responses_file = _save_responses(files.responses)
          /\ mappings_file = _save_mappings(files.mappings)
    /\ triggers = _load_data(triggers_file, JObj(<<>>),
                             DecodeTriggers(triggers_file.doc)).data
    /\ responses = _load_data(responses_file, JObj(<<>>),
                              DecodeResponses(responses_file.doc)).data
    /\ mappings = _load_data(mappings_file, JArr(<<>>),
                             DecodeMappings(mappings_file.doc)).data
    /\ crm_module \in CrmModules
    /\ ret = NoCall
    /\ DeploymentConstructed
    /\ ServicesConstructed

ResolveMessages ==
    {S_HELLO, S_hello_padded, S_hello_there, S_a_tab_b, S_is_it, S_hi,
     S_hi_there, S_yo}

ResolveContexts ==
    {<<NoUser, NoData>>,
     <<StrUser(U_123), NoData>>,
     <<NoUser, SomeData(<<Entry(K_name, V_test_user)>>)>>,
     <<NoUser, SomeData(<<Entry(K_name, V_status_token), Entry(K_status, V_vip)>>)>>}

NextResolve ==
    \E message_text \in ResolveMessages, c \in ResolveContexts :
        process_message(message_text, c[1], c[2])

SpecResolve == InitResolve /\ [][NextResolve]_vars

(***************************************************************************)
(* A fresh engine constructed over data files an earlier engine saved, or  *)
(* over files that have since been removed or damaged                      *)
(***************************************************************************)
\* what has become of the trigger, the response and the mapping file: at most
\* one of them is damaged, or all three are missing
FileDamages ==
    {<<"saved", "saved", "saved">>, <<"missing", "missing", "missing">>}
        \cup {<<k, "saved", "saved">> : k \in {"missing", "malformed", "undecodable"}}
        \cup {<<"saved", k, "saved">> : k \in {"missing", "malformed", "undecodable"}}
        \cup {<<"saved", "saved", k>> : k \in {"missing", "malformed", "undecodable"}}

Damaged(file, damage) ==
    IF damage = "missing" THEN MissingFile
    ELSE IF damage = "malformed" THEN MalformedFile
    ELSE IF damage = "undecodable" THEN UndecodableFile
    ELSE file

\* the engine that saved the files is at hand
InitLoad ==
    /\ triggers \in TriggerFiles
    /\ \E files \in DataFiles :
          /\ responses = files.responses
          /\ mappings = files.mappings
    /\ \E damage \in FileDamages :
          /\ triggers_file = Damaged(_save_triggers(triggers), damage[1])
          /\ responses_file = Damaged(_save_responses(responses), damage[2])
          /\ mappings_file = Damaged(_save_mappings(mappings), damage[3])
    /\ crm_module = NoCrm
    /\ ret = NoCall
    /\ DeploymentConstructed
    /\ ServicesConstructed

NextLoad == \E crm \in CrmModules : __init__(crm)

SpecLoad == InitLoad /\ [][NextLoad]_vars

(***************************************************************************)
(* The engine constructed over data files written by hand or by an older   *)
(* version: records that lack optional fields                              *)
(***************************************************************************)
\* a record without the fields of dropped
Without(rec, dropped) == [rec EXCEPT !.has = @ \ dropped]

\* two triggers for "hello", two responses and three mappings, each record
\* with some of its optional fields left out
SparseFiles ==
    {[triggers |->
          <<Entry(TriggerId(1),
                  Without(DictGet(LoadTriggers(<<TriggerArg(S_hello, "contains", 10, TRUE)>>, 1),
                                  TriggerId(1)), t1)),
            Entry(TriggerId(2),
                  Without([DictGet(LoadTriggers(<<TriggerArg(S_hello, "exact", 5, TRUE)>>, 1),
                                   TriggerId(1)) EXCEPT !.trigger_id = TriggerId(2)], t2))>>,
      responses |->
          <<Entry(ResponseId(1),
                  Without(DictGet(add_response_store(<<>>, T_plain, "markdown", <<>>, TRUE),
                                  ResponseId(1)), r1)),
            Entry(ResponseId(2),
                  DictGet(add_response_store(add_response_store(<<>>, T_plain, "markdown", <<>>, TRUE),
                                             T_hello_crm, "text", <<>>, TRUE),
                          ResponseId(2)))>>,
      mappings |->
          <<Without(Mapping(1, TriggerId(1), ResponseId(1), <<>>, 2, TRUE), m1),
            Mapping(2, TriggerId(1), ResponseId(2), <<>>, 1, TRUE),
            Without(Mapping(3, TriggerId(2), ResponseId(1), <<>>, 1, TRUE), m3)>>] :
        t1 \in SUBSET {"priority", "is_active"},
        t2 \in SUBSET {"priority"},
        r1 \in SUBSET {"response_type", "is_active"},
        m1 \in SUBSET {"order_in_sequence", "is_active"},
        m3 \in SUBSET {"is_active"}}

\* __init__ with the sparse data files present
InitSparse ==
    /\ \E files \in SparseFiles :
          /\ triggers_file = _save_triggers(files.triggers)
          /\ responses_file = _save_responses(files.responses)
          /\ mappings_file = _save_mappings(files.mappings)
    /\ triggers = _load_data(triggers_file, JObj(<<>>),
                             DecodeTriggers(triggers_file.doc)).data
    /\ responses = _load_data(responses_file, JObj(<<>>),
                              DecodeResponses(responses_file.doc)).data
    /\ mappings = _load_data(mappings_file, JArr(<<>>),
                             DecodeMappings(mappings_file.doc)).data
    /\ crm_module = NoCrm
    /\ ret = NoCall
    /\ DeploymentConstructed
    /\ ServicesConstructed

SparseMessages == {S_Hello, S_hello_there}

NextSparse ==
    \E message_text \in SparseMessages : process_message(message_text, NoUser, NoData)

SpecSparse == InitSparse /\ [][NextSparse]_vars

(***************************************************************************)
(* The engine constructed over data files that exist, called with every    *)
(* kind of user id and of context                                          *)
(***************************************************************************)
ContextMessages == {S_HELLO, S_yo}

\* user_telegram_id: None, "123", 0; crm_data: None, {}, {"name": "Test User"}
ContextUsers == {NoUser, StrUser(U_123), IntUser(0)}

ContextData == {NoData, SomeData(<<>>), SomeData(<<Entry(K_name, V_test_user)>>)}

NextContext ==
    \E message_text \in ContextMessages, user_telegram_id \in ContextUsers,
       crm_data \in ContextData :
        process_message(message_text, user_telegram_id, crm_data)

SpecContext == InitResolve /\ [][NextContext]_vars

(***************************************************************************)
(* DeploymentConfig and Deployment as state machines, each constructed     *)
(* without a configuration file                                            *)
(***************************************************************************)
\* how many records deployment_history holds at most
MaxDeployments == 2

\* the seconds of the clock deploy reads
MaxClock == 2

DeploymentConfig_set_default_environment(env_name) ==
    /\ config' = set_default_environment_config(config, env_name)
    /\ returned' = Returned("DeploymentConfig.set_default_environment", env_name, "",
                            DictHas(config.environments, env_name))
    /\ UNCHANGED <<engine_vars, service_vars, deployment_config, current_environment>>

DeploymentConfig_add_environment(env_name, env_config) ==
    /\ config' = add_environment_config(config, env_name, env_config)
    /\ returned' = Returned("DeploymentConfig.add_environment", env_name, "", TRUE)
    /\ UNCHANGED <<engine_vars, service_vars, deployment_config, current_environment>>

DeploymentConfig_update_environment(env_name, env_config) ==
    /\ config' = update_environment_config(config, env_name, env_config)
    /\ returned' = Returned("DeploymentConfig.update_environment", env_name, "",
                            DictHas(config.environments, env_name))
    /\ UNCHANGED <<engine_vars, service_vars, deployment_config, current_environment>>

DeploymentConfig_remove_environment(env_name) ==
    /\ config' = remove_environment_config(config, env_name)
    /\ returned' = Returned("DeploymentConfig.remove_environment", env_name, "",
                            DictHas(config.environments, env_name))
    /\ UNCHANGED <<engine_vars, service_vars, deployment_config, current_environment>>

\* the names the calls are made with: those of the default configuration,
\* the one the tests add, and one that is never added
EnvNames == {"local", "staging", "production", "new"}

UnknownEnv == "unknown"

InitDeployment ==
    /\ Init
    /\ crm_module = NoCrm

NextConfig ==
    \/ \E env_name \in EnvNames \cup {UnknownEnv} :
          DeploymentConfig_set_default_environment(env_name)
    \/ \E env_name \in EnvNames :
          DeploymentConfig_add_environment(env_name, NewEnvironment)
    \/ \E env_name \in EnvNames \cup {UnknownEnv} :
          DeploymentConfig_update_environment(env_name, NewEnvironment)
    \/ \E env_name \in EnvNames \cup {UnknownEnv} :
          DeploymentConfig_remove_environment(env_name)

SpecConfig == InitDeployment /\ [][NextConfig]_vars

Deployment_add_environment(env_name, env_config) ==
    /\ deployment_config' =
          [deployment_config EXCEPT
             !.environments = DictSet(deployment_config.environments, env_name, env_config)]
    /\ returned' = Returned("Deployment.add_environment", env_name, "", TRUE)
    /\ UNCHANGED <<engine_vars, service_vars, config, current_environment>>

Deployment_remove_environment(env_name) ==
    LET found == DictHas(deployment_config.environments, env_name)
    IN  /\ deployment_config' =
              IF found
              THEN [deployment_config EXCEPT
                      !.environments = DictDel(deployment_config.environments, env_name)]
              ELSE deployment_config
        /\ current_environment' =
              current_after_remove(deployment_config, current_environment, env_name)
        /\ returned' = Returned("Deployment.remove_environment", env_name, "", found)
        /\ UNCHANGED <<engine_vars, service_vars, config>>

set_current_environment(env_name) ==
    LET found == DictHas(deployment_config.environments, env_name)
    IN  /\ current_environment' = IF found THEN env_name ELSE current_environment
        /\ returned' = Returned("Deployment.set_current_environment", env_name, "", found)
        /\ UNCHANGED <<engine_vars, service_vars, config, deployment_config>>

\* options of deploy, as far as the steps read them
DeployOptions == {[restart |-> TRUE, service_name |-> ""],
                  [restart |-> FALSE, service_name |-> ""]}

\* what the outside world does during a deploy: writing the files and
\* restarting the service
IoOutcomes == {"ok", "OSError"}

RestartOutcomes == {"ok", "CalledProcessError", "FileNotFoundError"}

\* the seconds the clock can show: not before the last deployment
ClockNow ==
    {t \in 1..MaxClock :
        \A i \in 1..Len(deployment_config.deployment_history) :
            deployment_config.deployment_history[i].id <= t}

deploy(env_name, source_dir, options) ==
    /\ Len(deployment_config.deployment_history) < MaxDeployments
    /\ \E now \in ClockNow, io \in IoOutcomes, restart \in RestartOutcomes :
          \E run \in {deploy_run(deployment_config, current_environment, env_name,
                                 source_dir, options, now, io, restart)} :
              /\ deployment_config' =
                    [deployment_config EXCEPT !.deployment_history = run.history]
              /\ returned' = Returned("Deployment.deploy", env_name, source_dir, run.value)
    /\ UNCHANGED <<engine_vars, service_vars, config, current_environment>>

NextDeployment ==
    \/ \E env_config \in {NewEnvironment, TestEnvironment} :
          Deployment_add_environment("new", env_config)
    \/ \E env_name \in EnvNames \cup {UnknownEnv} :
          Deployment_remove_environment(env_name)
    \/ \E env_name \in EnvNames \cup {UnknownEnv} :
          set_current_environment(env_name)
    \/ \E env_name \in EnvNames \cup {UnknownEnv, NoEnv}, source_dir \in SourceDirs,
          options \in DeployOptions :
          deploy(env_name, source_dir, options)

SpecDeployment == InitDeployment /\ [][NextDeployment]_vars

(***************************************************************************)
(* SystemMonitor as a state machine: the thread that calls log_error and   *)
(* log_activity, and the monitoring thread the constructor starts.  A step *)
(* is what a thread does without the other being able to run in between:   *)
(* deque.append is one step, each file write is a step of its own.         *)
(***************************************************************************)
\* how many calls the calling thread makes
MaxMonitorCalls == 3

\* how many times the monitoring thread runs _log_system_stats
MaxStats == 2

MonitorUsers == {12345, 67890}

\* the log_activity calls made before the first state
PriorCalls == {0, 99, 999}

\* _add_log up to self.logs.append(log_entry): the timestamp is read and the
\* entry is appended
AppendLog(entry) ==
    /\ logs' = DequeAppend(logs, [entry EXCEPT !.timestamp = monitor_clock])
    /\ monitor_clock' = monitor_clock + 1

\* _add_log from `if self.log_file`: the line is appended to the file, or an
\* OSError is caught and logged
WriteLog(io) == log_file' = IF io = "written" THEN log_file + 1 ELSE log_file

\* log_error up to the call of _add_log
log_error(error_message, user_id) ==
    /\ caller.pc = "idle"
    /\ caller.calls < MaxMonitorCalls
    /\ error_count' = error_count + 1
    /\ caller' = MonitorCall("_add_log", "log_error",
                             LogEntry(0, "ERROR", error_message, user_id, "None"),
                             "", error_count, user_activity, caller.calls + 1)
    /\ UNCHANGED <<logs, user_activity, log_file, monitor_clock, monitoring_thread>>
    /\ UNCHANGED <<engine_vars, deployment_vars, integration_vars>>

\* log_activity up to the call of _add_log
log_activity(user_id, activity, is_admin) ==
    /\ caller.pc = "idle"
    /\ caller.calls < MaxMonitorCalls
    /\ user_activity' =
           DictSet(user_activity, user_id,
                   log_activity_list(ActivitiesOf(user_activity, user_id),
                                     ActivityEntry(monitor_clock, activity, is_admin)))
    /\ monitor_clock' = monitor_clock + 1
    /\ caller' = MonitorCall("_add_log", "log_activity",
                             LogEntry(0, "INFO", "User activity: " \o activity, user_id,
                                      IF is_admin THEN "is_admin=True" ELSE "is_admin=False"),
                             activity, error_count, user_activity, caller.calls + 1)
    /\ UNCHANGED <<logs, error_count, log_file, monitoring_thread>>
    /\ UNCHANGED <<engine_vars, deployment_vars, integration_vars>>

\* the calling thread in _add_log: the append
caller_add_log ==
    /\ caller.pc = "_add_log"
    /\ AppendLog(caller.entry)
    /\ caller' = [caller EXCEPT !.pc = "write", !.entry.timestamp = monitor_clock]
    /\ UNCHANGED <<user_activity, error_count, log_file, monitoring_thread>>
    /\ UNCHANGED <<engine_vars, deployment_vars, integration_vars>>

\* the calling thread in _add_log: the file, and the return of the call
caller_return ==
    /\ caller.pc = "write"
    /\ \E io \in {"written", "OSError"} : WriteLog(io)
    /\ caller' = [caller EXCEPT !.pc = "idle"]
    /\ UNCHANGED <<logs, user_activity, error_count, monitor_clock, monitoring_thread>>
    /\ UNCHANGED <<engine_vars, deployment_vars, integration_vars>>

\* _monitoring_loop: _log_system_stats up to the call of _add_log, or an
\* exception of psutil or of the walk over user_activity, which is caught
_log_system_stats ==
    /\ monitoring_thread.pc = "collect"
    /\ monitoring_thread.stats < MaxStats
    /\ \E outcome \in {"ok", "Exception"} :
          monitoring_thread' =
              IF outcome = "ok"
              THEN MonitoringThread("_add_log", monitoring_thread.stats + 1,
                                    LogEntry(0, "STATS", "System statistics collected",
                                             NoUserId, "stats"))
              ELSE MonitoringThread("sleep", monitoring_thread.stats + 1,
                                    monitoring_thread.entry)
    /\ UNCHANGED <<logs, user_activity, error_count, log_file, monitor_clock, caller>>
    /\ UNCHANGED <<engine_vars, deployment_vars, integration_vars>>

\* the monitoring thread in _add_log: the append
monitoring_add_log ==
    /\ monitoring_thread.pc = "_add_log"
    /\ AppendLog(monitoring_thread.entry)
    /\ monitoring_thread' = [monitoring_thread EXCEPT !.pc = "write"]
    /\ UNCHANGED <<user_activity, error_count, log_file, caller>>
    /\ UNCHANGED <<engine_vars, deployment_vars, integration_vars>>

\* the monitoring thread in _add_log: the file; then it sleeps
monitoring_write ==
    /\ monitoring_thread.pc = "write"
    /\ \E io \in {"written", "OSError"} : WriteLog(io)
    /\ monitoring_thread' = [monitoring_thread EXCEPT !.pc = "sleep"]
    /\ UNCHANGED <<logs, user_activity, error_count, monitor_clock, caller>>
    /\ UNCHANGED <<engine_vars, deployment_vars, integration_vars>>

\* _monitoring_loop: the 60 seconds are over
monitoring_wake ==
    /\ monitoring_thread.pc = "sleep"
    /\ monitoring_thread' = [monitoring_thread EXCEPT !.pc = "collect"]
    /\ UNCHANGED <<logs, user_activity, error_count, log_file, monitor_clock, caller>>
    /\ UNCHANGED <<engine_vars, deployment_vars, integration_vars>>

\* the monitor after n calls log_activity(12345, "test_activity") made before
\* the monitoring thread has collected its first statistics: call k reads the
\* clock at 2k - 2 in log_activity and at 2k - 1 in _add_log
InitMonitor ==
    /\ triggers = <<>>
    /\ responses = <<>>
    /\ mappings = <<>>
    /\ triggers_file = JsonFile(JObj(<<>>))
    /\ responses_file = JsonFile(JObj(<<>>))
    /\ mappings_file = JsonFile(JArr(<<>>))
    /\ crm_module = NoCrm
    /\ ret = NoCall
    /\ DeploymentConstructed
    /\ IntegrationConstructed
    /\ error_count = 0
    /\ caller = NoMonitorCall
    /\ monitoring_thread = MonitoringThread("collect", 0, NoMonitorCall.entry)
    /\ \E n \in PriorCalls :
          LET kept == IF n > ActivityMaxLen THEN ActivityMaxLen ELSE n
          IN  /\ logs = [k \in 1..(IF n > LogsMaxLen THEN LogsMaxLen ELSE n) |->
                            LogEntry(2 * k - 1, "INFO", "User activity: test_activity",
                                     12345, "is_admin=False")]
              /\ user_activity =
                     IF n = 0 THEN <<>>
                     ELSE <<Entry(12345,
                                  [i \in 1..kept |->
                                      ActivityEntry(2 * (n - kept + i) - 2,
                                                    "test_activity", FALSE)])>>
              /\ log_file = n
              /\ monitor_clock = 2 * n

NextMonitor ==
    \/ \E user_id \in {NoUserId, 12345} : log_error("Test error", user_id)
    \/ \E user_id \in MonitorUsers : log_activity(user_id, "test_activity", FALSE)
    \/ caller_add_log
    \/ caller_return
    \/ _log_system_stats
    \/ monitoring_add_log
    \/ monitoring_write
    \/ monitoring_wake

SpecMonitor == InitMonitor /\ [][NextMonitor]_vars

(***************************************************************************)
(* ServiceIntegration as a state machine, constructed without a            *)
(* configuration file                                                      *)
(***************************************************************************)
\* service_name in self.config.get("services", {})
Registered(cfg, service_name) ==
    cfg.has_services /\ DictHas(cfg.services, service_name)

\* register_service: the configuration entry is set, and the service is
\* initialized when its configuration is enabled
register_service_result(cfg, active, service_name, service_config) ==
    [config |-> IntegrationConfig(TRUE, DictSet(cfg.services, service_name, service_config)),
     services |-> IF Get(service_config, "enabled", FALSE)
                  THEN DictSet(active, service_name, ActiveService(service_config))
                  ELSE active,
     value |-> TRUE]

enable_service_result(cfg, active, service_name) ==
    IF ~Registered(cfg, service_name)
    THEN [config |-> cfg, services |-> active, value |-> FALSE]
    ELSE LET enabled == [DictGet(cfg.services, service_name)
                             EXCEPT !.has = @ \cup {"enabled"}, !.enabled = TRUE]
         IN  [config |-> IntegrationConfig(TRUE, DictSet(cfg.services, service_name, enabled)),
              services |-> DictSet(active, service_name, ActiveService(enabled)),
              value |-> TRUE]

disable_service_result(cfg, active, service_name) ==
    IF ~Registered(cfg, service_name)
    THEN [config |-> cfg, services |-> active, value |-> FALSE]
    ELSE LET disabled == [DictGet(cfg.services, service_name)
                              EXCEPT !.has = @ \cup {"enabled"}, !.enabled = FALSE]
         IN  [config |-> IntegrationConfig(TRUE, DictSet(cfg.services, service_name, disabled)),
              services |-> DictDel(active, service_name),
              value |-> TRUE]

\* the "status" of the dict get_service_status returns
get_service_status_result(active, service_name) ==
    IF ~DictHas(active, service_name) THEN "disabled"
    ELSE DictGet(active, service_name).status

\* what a check of a service of each type can find: the status it stores,
\* or "ImportError" when the database driver is missing, which is returned
\* as an error and stores nothing
CheckOutcomes(type) ==
    IF type = "http" THEN {"ok", "error", "timeout"}
    ELSE IF type = "smtp" THEN {"ok", "error"}
    ELSE IF type = "database" THEN {"ok", "error", "ImportError"}
    ELSE {"unknown"}

\* check_service: the active services afterwards and the "status" returned
check_service_result(active, service_name, outcome) ==
    IF ~DictHas(active, service_name)
    THEN [services |-> active, status |-> "disabled"]
    ELSE LET service == DictGet(active, service_name)
             stored == IF outcome = "ImportError" THEN service.status ELSE outcome
         IN  [services |-> DictSet(active, service_name,
                                   [service EXCEPT !.status = stored, !.last_check = "now"]),
              status |-> IF outcome = "ImportError" THEN "error" ELSE outcome]

register_service(service_name, service_config) ==
    \E run \in {register_service_result(integration_config, services, service_name,
                                        service_config)} :
        /\ integration_config' = run.config
        /\ services' = run.services
        /\ service_returned' = ServiceReturned("register_service", service_name, run.value, "")
        /\ UNCHANGED <<engine_vars, deployment_vars, monitor_vars>>

enable_service(service_name) ==
    \E run \in {enable_service_result(integration_config, services, service_name)} :
        /\ integration_config' = run.config
        /\ services' = run.services
        /\ service_returned' = ServiceReturned("enable_service", service_name, run.value, "")
        /\ UNCHANGED <<engine_vars, deployment_vars, monitor_vars>>

disable_service(service_name) ==
    \E run \in {disable_service_result(integration_config, services, service_name)} :
        /\ integration_config' = run.config
        /\ services' = run.services
        /\ service_returned' = ServiceReturned("disable_service", service_name, run.value, "")
        /\ UNCHANGED <<engine_vars, deployment_vars, monitor_vars>>

get_service_status(service_name) ==
    /\ service_returned' =
           ServiceReturned("get_service_status", service_name, TRUE,
                           get_service_status_result(services, service_name))
    /\ UNCHANGED <<integration_config, services>>
    /\ UNCHANGED <<engine_vars, deployment_vars, monitor_vars>>

check_service(service_name) ==
    \E outcome \in CheckOutcomes(IF DictHas(services, service_name)
                                 THEN DictGet(services, service_name).config.type
                                 ELSE "") :
        \E run \in {check_service_result(services, service_name, outcome)} :
            /\ services' = run.services
            /\ service_returned' =
                   ServiceReturned("check_service", service_name, TRUE, run.status)
            /\ UNCHANGED integration_config
            /\ UNCHANGED <<engine_vars, deployment_vars, monitor_vars>>

ServiceNames == {"weather", "mail"}

\* {"type": "http", "enabled": True}, {"type": "http", "enabled": False},
\* {"type": "database"} and {"type": "custom", "enabled": True}
ServiceConfigs ==
    {ServiceConfig("http", TRUE, TRUE), ServiceConfig("http", TRUE, FALSE),
     ServiceConfig("database", FALSE, FALSE), ServiceConfig("custom", TRUE, TRUE)}

InitIntegration == Init /\ crm_module = NoCrm

NextIntegration ==
    \/ \E service_name \in ServiceNames, service_config \in ServiceConfigs :
          register_service(service_name, service_config)
    \/ \E service_name \in ServiceNames : enable_service(service_name)
    \/ \E service_name \in ServiceNames : disable_service(service_name)
    \/ \E service_name \in ServiceNames : get_service_status(service_name)
    \/ \E service_name \in ServiceNames : check_service(service_name)

SpecIntegration == InitIntegration /\ [][NextIntegration]_vars

(***************************************************************************)
(* Properties                                                              *)
(***************************************************************************)
\* the last call was process_message
Processed == ret.op = "process_message"

\* the triggers of the store, in insertion order
Stored == DictValues(triggers)

\* the places of the stored triggers that are active and match the message of
\* the last call
Candidates ==
    {i \in 1..Len(Stored) : MatchTrigger(Stored[i], ret.run.processed_text).matched}

\* C1: process_message selects, among the active triggers that match the
\* message, the one with the smallest priority number, and among those with
\* that priority the one inserted first.
C1_SmallestPriorityFirstInserted ==
    Processed =>
        /\ ret.run.matched <=> Candidates # {}
        /\ ret.run.matched =>
              \E i \in Candidates :
                  /\ ret.run.matched_trigger = Stored[i]
                  /\ \A j \in Candidates :
                        \/ Stored[i].priority < Stored[j].priority
                        \/ Stored[i].priority = Stored[j].priority /\ i <= j

\* two matching active triggers share the smallest priority and the one
\* inserted first is selected
C1_TieWitness ==
    /\ Processed
    /\ \E i, j \in Candidates :
          /\ i < j
          /\ Stored[i].priority = Stored[j].priority
          /\ ret.run.matched_trigger = Stored[i]

\* C2: every reply process_message returns was produced from a trigger, a
\* mapping and a response that are all active.
C2_ReplyOnlyFromActive ==
    (Processed /\ ret.run.result.reply) =>
        /\ ret.run.matched_trigger \in Range(Stored)
        /\ ret.run.matched_trigger.is_active
        /\ ret.run.selected_mapping \in Range(mappings)
        /\ ret.run.selected_mapping.is_active
        /\ DictHas(responses, ret.run.selected_mapping.response_id)
        /\ DictGet(responses, ret.run.selected_mapping.response_id).is_active

\* a reply is returned although the matched trigger has an inactive mapping
\* that sorts before the selected one
C2_InactiveMappingPassedOver ==
    /\ Processed
    /\ ret.run.result.reply
    /\ \E i \in 1..Len(mappings) :
          /\ mappings[i].trigger_id = ret.run.matched_trigger.trigger_id
          /\ ~mappings[i].is_active
          /\ mappings[i].order_in_sequence < ret.run.selected_mapping.order_in_sequence

\* C3: add_mapping with a trigger_id or a response_id that is not in its
\* store fails with a not-found result and leaves the mapping list and the
\* mapping file as they were.
C3_FailedMappingChangesNothing ==
    [][(/\ ret'.op = "add_mapping"
        /\ \/ ~DictHas(triggers, ret'.trigger_id)
           \/ ~DictHas(responses, ret'.response_id))
       => /\ ~ret'.ok
          /\ ret'.error \in {"trigger_not_found", "response_not_found"}
          /\ mappings' = mappings
          /\ mappings_file' = mappings_file]_vars

\* add_mapping has failed for an unknown response while the mapping list
\* holds a mapping
C3_FailedWithMappingsPresent ==
    /\ ret.op = "add_mapping"
    /\ ~ret.ok
    /\ ret.error = "response_not_found"
    /\ DictHas(triggers, ret.trigger_id)
    /\ Len(mappings) > 0
    /\ mappings_file = _save_mappings(mappings)

\* C10: when no active trigger matches the message, process_message returns
\* None, which is not a reply with an empty text; a reply is returned only
\* when an active trigger matched.
C10_NoMatchNoReply ==
    Processed =>
        /\ Candidates = {} => ret.run.result = NoReply
        /\ ret.run.result.reply => Candidates # {}
        /\ (ret.run.result.reply /\ ret.run.result.text = <<>>) => ret.run.result # NoReply

\* no trigger matches and None is returned, in an engine whose only trigger
\* is active and mapped to an active response with an empty text
C10_NoMatchBesideEmptyReply ==
    /\ Processed
    /\ Len(Stored) = 1
    /\ Candidates = {}
    /\ ret.run.result = NoReply
    /\ \E i \in 1..Len(mappings) :
          /\ mappings[i].is_active
          /\ mappings[i].trigger_id = Stored[1].trigger_id
          /\ Stored[1].is_active
          /\ DictGet(responses, mappings[i].response_id).is_active
          /\ DictGet(responses, mappings[i].response_id).response_text = <<>>

\* lowercased and stripped of leading and trailing whitespace
Normalized(text) == Strip(Lower(text))

\* C4: an active Exact trigger matches a message exactly when the normalized
\* message equals the normalized trigger phrase.
C4_ExactIffNormalizedEqual ==
    Processed =>
        \A i \in 1..Len(Stored) :
            (Stored[i].is_active /\ Stored[i].match_type = "exact") =>
                (MatchTrigger(Stored[i], ret.run.processed_text).matched
                    <=> Normalized(ret.message_text) = Normalized(Stored[i].trigger_phrase))

\* C5: an active Contains trigger matches a message exactly when the
\* normalized trigger phrase is a substring of the normalized message.
C5_ContainsIffNormalizedSubstring ==
    Processed =>
        \A i \in 1..Len(Stored) :
            (Stored[i].is_active /\ Stored[i].match_type = "contains") =>
                (MatchTrigger(Stored[i], ret.run.processed_text).matched
                    <=> IsSubstring(Normalized(Stored[i].trigger_phrase),
                                    Normalized(ret.message_text)))

\* the stored phrase of a Regex trigger is not a valid regular expression
InvalidPattern(trigger) ==
    trigger.match_type = "regex" /\ Compile(trigger.trigger_phrase).status = "error"

\* C6: a Regex trigger whose phrase is not a valid regular expression never
\* makes process_message raise; it is skipped, so it is never the matched
\* trigger, and the first of the other active triggers that match is selected.
C6_InvalidPatternSkipped ==
    Processed =>
        /\ ret.ok
        /\ \A i \in 1..Len(Stored) :
              InvalidPattern(Stored[i]) => ret.run.matched_trigger # Stored[i]
        /\ LET valid == {i \in Candidates : ~InvalidPattern(Stored[i])}
           IN  valid # {} =>
                  \E i \in valid :
                      /\ ret.run.matched_trigger = Stored[i]
                      /\ \A j \in valid :
                            \/ Stored[i].priority < Stored[j].priority
                            \/ Stored[i].priority = Stored[j].priority /\ i <= j

\* One pass over a template: a token of pairs that starts at a place of the
\* template is replaced by its value, and the pass goes on after the token, so
\* an inserted value is not read again.
RECURSIVE SubstituteOnce(_, _, _)
SubstituteOnce(text, pos, pairs) ==
    IF pos > Len(text) THEN <<>>
    ELSE LET here == {k \in 1..Len(pairs) : StartsAt(text, pairs[k].token, pos)}
         IN  IF here = {}
             THEN <<text[pos]>> \o SubstituteOnce(text, pos + 1, pairs)
             ELSE LET k == CHOOSE k \in here : \A l \in here : k <= l
                  IN  pairs[k].value
                          \o SubstituteOnce(text, pos + Len(pairs[k].token), pairs)

\* the response text of the response the last call rendered
Template == DictGet(responses, ret.run.selected_mapping.response_id).response_text

\* the tokens of the captured groups: none for an Exact or a Contains trigger,
\* and none for a group that captured no text
GroupPairs ==
    LET g == ret.run.regex_groups.g
    IN  SelectSeq([n \in 1..Len(g) |->
                      [token |-> GroupToken(n), value |-> g[n].s, some |-> g[n].some]],
                  LAMBDA pair : pair.some)

\* the tokens of the fields of the context the reply was rendered with
CrmPairs ==
    LET d == ret.run.current_crm_data.d
    IN  [k \in 1..Len(d) |-> [token |-> CrmToken(d[k].key), value |-> d[k].val]]

\* C7: in a reply, every {regex_group_n} of the response text is replaced by
\* the text of the n-th group the Regex trigger captured; it is left as written
\* when the trigger is Exact or Contains or there is no n-th group.  (Stated
\* for the replies rendered without CRM data.)
C7_GroupTokensReplaced ==
    (Processed /\ ret.run.result.reply /\ Len(ret.run.current_crm_data.d) = 0) =>
        ret.run.result.text = SubstituteOnce(Template, 1, GroupPairs)

\* C8: in a reply, every {crm_<field>} of the response text whose field is in
\* the context is replaced by the field's value, and every other {crm_<field>}
\* is left as written.  (Stated for the replies to an Exact or a Contains
\* trigger, where no group is substituted.)
C8_CrmTokensReplaced ==
    (Processed /\ ret.run.result.reply /\ ~ret.run.regex_groups.some) =>
        ret.run.result.text = SubstituteOnce(Template, 1, CrmPairs)

\* the place in the mapping list of the mapping process_message is to use
\* for the matched trigger: active, of the smallest order_in_sequence, the
\* earliest of them
FirstMapping ==
    LET mine == {i \in 1..Len(mappings) :
                    /\ mappings[i].is_active
                    /\ mappings[i].trigger_id = ret.run.matched_trigger.trigger_id}
    IN  {i \in mine :
            \A j \in mine :
                \/ mappings[i].order_in_sequence < mappings[j].order_in_sequence
                \/ /\ mappings[i].order_in_sequence = mappings[j].order_in_sequence
                   /\ i <= j}

\* C9: if the response of the selected mapping is not in the response store
\* or is inactive, process_message returns None and does not raise, whatever
\* the other mappings of the trigger refer to.
C9_UnusableResponseNoReply ==
    (Processed /\ ret.run.matched) =>
        \A i \in FirstMapping :
            (\/ ~DictHas(responses, mappings[i].response_id)
             \/ ~DictGet(responses, mappings[i].response_id).is_active)
                => (ret.ok /\ ret.run.result = NoReply)

\* the selected mapping names a response that is not in the store, another
\* active mapping of the same trigger names an active response, and None is
\* returned
C9_DanglingBesideUsable ==
    /\ Processed
    /\ ret.run.matched
    /\ ret.run.result = NoReply
    /\ \E i \in FirstMapping :
          /\ ~DictHas(responses, mappings[i].response_id)
          /\ \E j \in 1..Len(mappings) :
                /\ j # i
                /\ mappings[j].is_active
                /\ mappings[j].trigger_id = mappings[i].trigger_id
                /\ DictHas(responses, mappings[j].response_id)
                /\ DictGet(responses, mappings[j].response_id).is_active

\* C11: among the active mappings of the matched trigger, process_message
\* uses the one with the smallest order_in_sequence, the one added first among
\* equals; neither the conditions of a mapping nor the context of the call has
\* a part in the choice.
C11_SmallestOrderFirstAdded ==
    (Processed /\ ret.run.matched) =>
        /\ FirstMapping = {} => ret.run.result = NoReply
        /\ \A i \in FirstMapping : ret.run.selected_mapping = mappings[i]

\* a call without context selects, of two active mappings with the same
\* smallest order, the one added first, although it has conditions
C11_TieWithConditions ==
    /\ Processed
    /\ ret.run.result.reply
    /\ ret.crm_data = NoData
    /\ ret.user_telegram_id = NoUser
    /\ \E i \in FirstMapping :
          /\ ret.run.selected_mapping = mappings[i]
          /\ Len(mappings[i].conditions) > 0
          /\ \E j \in (i + 1)..Len(mappings) :
                /\ mappings[j].is_active
                /\ mappings[j].trigger_id = mappings[i].trigger_id
                /\ mappings[j].order_in_sequence = mappings[i].order_in_sequence
                /\ Len(mappings[j].conditions) = 0

C13_ProcessMessageChangesNoStore ==
    [][ret'.op = "process_message" =>
          /\ triggers' = triggers
          /\ responses' = responses
          /\ mappings' = mappings
          /\ triggers_file' = triggers_file
          /\ responses_file' = responses_file
          /\ mappings_file' = mappings_file]_vars

\* a call that replied from stores that hold a mapping, the files still being
\* what the adds saved
C13_RepliedStoresAsSaved ==
    /\ Processed
    /\ ret.run.result.reply
    /\ Len(mappings) > 0
    /\ triggers_file = _save_triggers(triggers)
    /\ responses_file = _save_responses(responses)
    /\ mappings_file = _save_mappings(mappings)

\* the id with prefix and ordinal k, for k below ten
OrdinalId(prefix, k) == prefix \o <<"0", "0", DigitChars[k + 1]>>

\* store2 is store with one entry appended under the id of the next ordinal,
\* and that id is what the call returned
AppendedNext(store, store2, prefix) ==
    /\ ret'.ok
    /\ Len(store2) = Len(store) + 1
    /\ \A i \in 1..Len(store) : store2[i] = store[i]
    /\ store2[Len(store2)].key = OrdinalId(prefix, Len(store) + 1)
    /\ ret'.id = Some(OrdinalId(prefix, Len(store) + 1))
    /\ \A i, j \in 1..Len(store2) : store2[i].key = store2[j].key => i = j

\* C14: from empty stores every add_trigger and add_response succeeds, the
\* k-th add of a store is given the id of ordinal k, the ids of a store are
\* distinct, and the entries already present stay as they were.
C14_AddsNumberInSequence ==
    [][/\ ret'.op = "add_trigger" => AppendedNext(triggers, triggers', <<"T", "R", "G", "_">>)
       /\ ret'.op = "add_response" => AppendedNext(responses, responses', <<"R", "E", "S", "_">>)]_vars

\* the second add_trigger returned TRG_002 and the first trigger is still
\* stored under TRG_001
C14_SecondTriggerAdded ==
    /\ ret.op = "add_trigger"
    /\ ret.id = Some(<<"T", "R", "G", "_", "0", "0", "2">>)
    /\ Len(triggers) = 2
    /\ triggers[1].key = <<"T", "R", "G", "_", "0", "0", "1">>
    /\ triggers[2].key = <<"T", "R", "G", "_", "0", "0", "2">>

\* the file holds a JSON document
HoldsJson(file) == file.kind = "json" /\ JsonValid(file.doc)

\* C15: when add_trigger, add_response or add_mapping has returned success,
\* the file of the store it added to holds the collection in memory.
C15_AddIsPersisted ==
    [][ret'.ok =>
          /\ ret'.op = "add_trigger" =>
                /\ HoldsJson(triggers_file')
                /\ DecodeTriggers(triggers_file'.doc) = triggers'
          /\ ret'.op = "add_response" =>
                /\ HoldsJson(responses_file')
                /\ DecodeResponses(responses_file'.doc) = responses'
          /\ ret'.op = "add_mapping" =>
                /\ HoldsJson(mappings_file')
                /\ DecodeMappings(mappings_file'.doc) = mappings']_vars

\* a second mapping, one with conditions, was added and the file holds both
C15_SecondMappingPersisted ==
    /\ ret.op = "add_mapping"
    /\ ret.ok
    /\ Len(mappings) = 2
    /\ \E i \in 1..2 : Len(mappings[i].conditions) > 0
    /\ HoldsJson(mappings_file)
    /\ Len(mappings_file.doc.items) = 2
    /\ DecodeMappings(mappings_file.doc) = mappings

\* the three files are what the saves of the stores in memory wrote
FilesAsSaved ==
    /\ triggers_file = _save_triggers(triggers)
    /\ responses_file = _save_responses(responses)
    /\ mappings_file = _save_mappings(mappings)

\* C16: an engine constructed over the files the stores were saved to holds
\* the same triggers, responses and mappings: same ids, same values, same
\* order.
C16_SaveThenLoadIsIdentity ==
    [][(FilesAsSaved /\ ret'.op = "__init__") =>
          /\ ret'.ok
          /\ triggers' = triggers
          /\ responses' = responses
          /\ mappings' = mappings]_vars

\* an engine was constructed over saved files that hold a phrase with a
\* backslash, a response with a token and a mapping with conditions
C16_LoadedEscapedStores ==
    /\ ret.op = "__init__"
    /\ ret.ok
    /\ FilesAsSaved
    /\ \E i \in 1..Len(triggers) : "\\" \in Range(triggers[i].val.trigger_phrase)
    /\ \E i \in 1..Len(responses) : "{" \in Range(responses[i].val.response_text)
    /\ \E i \in 1..Len(mappings) : Len(mappings[i].conditions) > 0

\* the content of the file does not parse as JSON
FailsToParse(file) ==
    \/ file.kind \in {"malformed", "undecodable"}
    \/ file.kind = "json" /\ ~JsonValid(file.doc)

\* what the construction makes of one file: a missing file is created holding
\* the empty collection and the store is empty, content that does not parse
\* gives an empty store
LoadedOrEmpty(file, file2, store2, empty) ==
    /\ file.kind = "missing" => (file2 = JsonFile(empty) /\ store2 = <<>>)
    /\ FailsToParse(file) => store2 = <<>>

\* C17: constructing the engine never raises because of its files: a missing
\* file is created holding an empty object (triggers, responses) or an empty
\* array (mappings) and its store starts empty, and a file whose content does
\* not parse makes its store start empty.
C17_ConstructionNeverRaises ==
    [][ret'.op = "__init__" =>
          /\ ret'.ok
          /\ LoadedOrEmpty(triggers_file, triggers_file', triggers', JObj(<<>>))
          /\ LoadedOrEmpty(responses_file, responses_file', responses', JObj(<<>>))
          /\ LoadedOrEmpty(mappings_file, mappings_file', mappings', JArr(<<>>))]_vars

\* the name is one of the environments
Names(environments, env_name) == DictHas(environments, env_name)

\* C18: on a DeploymentConfig that started with the default configuration,
\* after every add_environment, update_environment, set_default_environment
\* and remove_environment the default environment is one of the environments
\* whenever there is an environment; removing the default environment makes a
\* remaining environment the default, and set_default_environment with an
\* unknown name fails and leaves the default as it was.
C18_DefaultIsAnEnvironment ==
    [][/\ Len(config'.environments) > 0 =>
             Names(config'.environments, config'.default_environment)
       /\ (/\ returned'.op = "DeploymentConfig.remove_environment"
           /\ returned'.env_name = config.default_environment
           /\ Names(config.environments, returned'.env_name)
           /\ Len(config'.environments) > 0)
          => Names(config'.environments, config'.default_environment)
       /\ (/\ returned'.op = "DeploymentConfig.set_default_environment"
           /\ ~Names(config.environments, returned'.env_name))
          => (returned'.value = FALSE /\ config' = config)]_vars

\* current_environment is one of the environments, or None when there is none
CurrentIsAnEnvironment(environments, current) ==
    IF Len(environments) > 0 THEN Names(environments, current) ELSE current = NoEnv

\* C19: on a Deployment, after every add_environment, set_current_environment
\* and remove_environment the current environment is one of the environments,
\* or None when no environment remains; removing the current environment
\* makes a remaining environment the current one, and removing an unknown
\* environment fails and changes nothing.
C19_CurrentIsAnEnvironment ==
    [][/\ CurrentIsAnEnvironment(deployment_config'.environments, current_environment')
       /\ (/\ returned'.op = "Deployment.remove_environment"
           /\ returned'.env_name = current_environment
           /\ Names(deployment_config.environments, returned'.env_name)
           /\ Len(deployment_config'.environments) > 0)
          => Names(deployment_config'.environments, current_environment')
       /\ (/\ returned'.op = "Deployment.remove_environment"
           /\ ~Names(deployment_config.environments, returned'.env_name))
          => /\ returned'.value = FALSE
             /\ deployment_config' = deployment_config
             /\ current_environment' = current_environment]_vars

\* the environment a deploy call is for: env_name, or the current environment
\* when env_name is None
DeployedTo ==
    IF returned'.env_name = NoEnv THEN current_environment ELSE returned'.env_name

\* history2 is history with one record of that status appended
AppendedRecord(history, history2, status) ==
    /\ Len(history2) = Len(history) + 1
    /\ \A i \in 1..Len(history) : history2[i] = history[i]
    /\ history2[Len(history2)].status = status

\* C20: a deploy to an existing environment from a source directory that
\* holds the required files returns status "ok" with a deployment_id and
\* appends one record with status "success" to deployment_history; a deploy
\* to an unknown environment or from a missing source directory returns
\* status "error" and appends nothing.
C20_DeployOkOrError ==
    [][returned'.op = "Deployment.deploy" =>
          /\ (/\ Names(deployment_config.environments, DeployedTo)
              /\ returned'.source_dir = "complete")
             => /\ returned'.value.status = "ok"
                /\ "deployment_id" \in returned'.value.keys
                /\ AppendedRecord(deployment_config.deployment_history,
                                  deployment_config'.deployment_history, "success")
          /\ (\/ ~Names(deployment_config.environments, DeployedTo)
              \/ returned'.source_dir = "missing")
             => /\ returned'.value.status = "error"
                /\ deployment_config'.deployment_history =
                      deployment_config.deployment_history]_vars

\* the places of the candidates that come first in precedence: the smallest
\* priority number, the earliest inserted of those
FirstCandidates ==
    {i \in Candidates :
        \A j \in Candidates :
            \/ Stored[i].priority < Stored[j].priority
            \/ Stored[i].priority = Stored[j].priority /\ i <= j}

\* the trigger has an active mapping
HasActiveMapping(trigger) ==
    \E k \in 1..Len(mappings) :
        mappings[k].is_active /\ mappings[k].trigger_id = trigger.trigger_id

\* C23: when the first matching trigger in precedence order has no active
\* mapping, process_message returns no reply; triggers of lower precedence are
\* not tried, even one that matches and has an active mapping to an active
\* response.
C23_FirstMatchWithoutMappingNoReply ==
    Processed =>
        \A i \in FirstCandidates :
            ~HasActiveMapping(Stored[i]) =>
                /\ ret.run.result = NoReply
                /\ ret.run.matched_trigger = Stored[i]

\* no reply was given although a second trigger matches the message and has
\* an active mapping to an active response
C23_UsableTriggerBehind ==
    /\ Processed
    /\ ret.run.result = NoReply
    /\ \E i \in FirstCandidates : ~HasActiveMapping(Stored[i])
    /\ \E j \in Candidates \ FirstCandidates :
          \E k \in 1..Len(mappings) :
              /\ mappings[k].is_active
              /\ mappings[k].trigger_id = Stored[j].trigger_id
              /\ ResponseActive(responses, mappings[k].response_id)

\* C27: in an engine that started with empty stores, after any sequence of
\* add_trigger, add_response and add_mapping calls every stored mapping
\* references a trigger id and a response id that are present in their
\* stores.
C27_MappingsReferencePresentIds ==
    \A k \in 1..Len(mappings) :
        /\ \E i \in 1..Len(triggers) : triggers[i].key = mappings[k].trigger_id
        /\ \E i \in 1..Len(responses) : responses[i].key = mappings[k].response_id

\* a mapping is stored, and add_mapping has since been refused for a response
\* id that is in no store
C27_MappingStoredThenRefused ==
    /\ Len(mappings) > 0
    /\ ret.op = "add_mapping"
    /\ ~ret.ok
    /\ ret.error = "response_not_found"
    /\ \A i \in 1..Len(responses) : responses[i].key # ret.response_id

\* the search of the message of the last call for the phrase of a trigger,
\* compiled as the phrase is stored
SearchAsStored(trigger) == RegexSearch(trigger.trigger_phrase, ret.run.processed_text)

\* C24: for a Regex trigger the pattern compiled and searched is the trigger
\* phrase exactly as add_trigger stored it: a Regex trigger is the matched
\* trigger only when its stored phrase finds a match in the message, with the
\* groups of that match, and when no trigger is matched no active Regex
\* trigger's stored phrase finds one.
C24_PatternIsStoredPhrase ==
    Processed =>
        /\ \A i \in 1..Len(Stored) :
              (Stored[i].match_type = "regex" /\ ret.run.matched_trigger = Stored[i])
                  => /\ SearchAsStored(Stored[i]).matched
                     /\ ret.run.regex_groups = SomeGroups(SearchAsStored(Stored[i]).groups)
        /\ ret.run.matched_trigger = NoTrigger =>
              \A i \in 1..Len(Stored) :
                  (Stored[i].match_type = "regex" /\ Stored[i].is_active)
                      => ~SearchAsStored(Stored[i]).matched

\* the tokens of all the captured groups with the text rendering writes for
\* each, str(group)
RenderedGroupPairs ==
    LET g == ret.run.regex_groups.g
    IN  [n \in 1..Len(g) |-> [token |-> GroupToken(n), value |-> StrOfGroup(g[n])]]

\* C25: rendering substitutes only the placeholder tokens that occur in the
\* response template itself: the text of a reply is the template with each of
\* its own tokens replaced in one pass, and text inserted from a context field
\* or a captured group is not read as a placeholder again.
C25_InsertedTextNotSubstituted ==
    (Processed /\ ret.run.result.reply) =>
        ret.run.result.text = SubstituteOnce(Template, 1, CrmPairs \o RenderedGroupPairs)

\* the stores with every optional field a record lacks filled in with the
\* default of the add operation
CompleteTriggers(trigs) ==
    [i \in 1..Len(trigs) |->
        Entry(trigs[i].key,
              [trigs[i].val EXCEPT !.has = @ \cup {"priority", "is_active"},
                                   !.priority = Get(trigs[i].val, "priority", 10),
                                   !.is_active = Get(trigs[i].val, "is_active", TRUE)])]

CompleteResponses(resps) ==
    [i \in 1..Len(resps) |->
        Entry(resps[i].key,
              [resps[i].val EXCEPT !.has = @ \cup {"response_type", "is_active"},
                                   !.response_type = Get(resps[i].val, "response_type", "text"),
                                   !.is_active = Get(resps[i].val, "is_active", TRUE)])]

CompleteMappings(maps) ==
    [i \in 1..Len(maps) |->
        [maps[i] EXCEPT !.has = @ \cup {"order_in_sequence", "is_active"},
                        !.order_in_sequence = Get(maps[i], "order_in_sequence", 1),
                        !.is_active = Get(maps[i], "is_active", TRUE)]]

\* C26: when a persisted trigger, mapping or response lacks an optional field,
\* process_message treats it with the default the add operation assigns
\* (priority 10, sequence order 1, response kind "text", active): the call
\* returns what it returns over the same stores with those fields written out.
C26_AbsentFieldsTakeAddDefaults ==
    Processed =>
        ret.run.result =
            process_message_run(CompleteTriggers(triggers), CompleteResponses(responses),
                                CompleteMappings(mappings), crm_module, ret.message_text,
                                ret.user_telegram_id, ret.crm_data).result

\* the last call asked the CRM at most once, after a trigger had matched, a
\* mapping had been selected and its response had been found active, and for
\* a user id that was given; a call that returned no reply did not ask it
LookupAfterSelection ==
    /\ ret.run.crm_calls \in {0, 1}
    /\ ret.run.crm_calls = 1 =>
          /\ ret.run.matched_trigger # NoTrigger
          /\ ret.run.selected_mapping # NoMapping
          /\ DictHas(responses, ret.run.selected_mapping.response_id)
          /\ DictGet(responses, ret.run.selected_mapping.response_id).is_active
          /\ ret.user_telegram_id # NoUser
          /\ crm_module # NoCrm
    /\ ret.run.result = NoReply => ret.run.crm_calls = 0

\* C28 as stated: process_message calls find_customer at most once per call,
\* only after a trigger has matched, a mapping has been selected and its
\* response has been found active, and only when no context was passed and a
\* user id was given; on a path that returns no reply it is not called.
C28_LookupOnlyWithoutContext ==
    Processed =>
        /\ LookupAfterSelection
        /\ ret.run.crm_calls = 1 => ~ret.crm_data.some

\* C28 as amended: as above, with the lookup made only when no context, or
\* an empty one, was passed.
C28_LookupOnlyWithoutContextData ==
    Processed =>
        /\ LookupAfterSelection
        /\ ret.run.crm_calls = 1 => (~ret.crm_data.some \/ ret.crm_data.d = <<>>)

\* a call that was passed an empty context and a user id, asked the CRM and
\* replied with the text rendered from the record it was given
C28_LookupForEmptyContext ==
    /\ Processed
    /\ ret.crm_data = SomeData(<<>>)
    /\ ret.run.crm_calls = 1
    /\ ret.run.result.reply
    /\ ret.run.current_crm_data = find_customer(crm_module, U_123)
    /\ ret.run.current_crm_data # NoData

\* C29: every deploy that starts a deployment (the environment exists and the
\* source directory is there) appends exactly one record to
\* deployment_history before it returns: with status "success" when it returns
\* status "ok", with status "error" for every other outcome of preparation,
\* execution or verification.
C29_StartedDeployIsRecorded ==
    [][(/\ returned'.op = "Deployment.deploy"
        /\ Names(deployment_config.environments, DeployedTo)
        /\ returned'.source_dir # "missing")
       => AppendedRecord(deployment_config.deployment_history,
                         deployment_config'.deployment_history,
                         IF returned'.value.status = "ok" THEN "success" ELSE "error")]_vars

\* the step at which the calling thread returns from the operation op
MonitorReturns(op) == caller.pc = "write" /\ caller'.pc = "idle" /\ caller.op = op

\* C21: after log_error returns, error_count has increased by exactly one and
\* the most recent entry of the monitor's logs is the ERROR entry with the
\* given message and user id, under every interleaving with the monitoring
\* thread that the constructor starts.
C21_ErrorEntryIsLastAtReturn ==
    [][MonitorReturns("log_error") =>
          /\ error_count' = caller.error_count + 1
          /\ Len(logs') > 0
          /\ logs'[Len(logs')].level = "ERROR"
          /\ logs'[Len(logs')].message = caller.entry.message
          /\ logs'[Len(logs')].user_id = caller.entry.user_id]_vars

\* the lists hold at most 100 entries and the log at most 1000
WithinLimits ==
    /\ Len(logs) <= 1000
    /\ \A i \in 1..Len(user_activity) : Len(user_activity[i].val) <= 100

\* C22: log_activity(user, activity) appends an entry for the activity as the
\* last element of that user's list, dropping the oldest entry of a list that
\* held 100, and leaves the lists of the other users unchanged; no list holds
\* more than 100 entries and the in-memory logs never hold more than 1000.
C22_ActivityAppendedWithinLimits ==
    /\ []WithinLimits
    /\ [][MonitorReturns("log_activity") =>
             LET user == caller.entry.user_id
                 before == ActivitiesOf(caller.user_activity, user)
                 after == ActivitiesOf(user_activity', user)
                 kept == IF Len(before) >= 100 THEN Tail(before) ELSE before
             IN  /\ Len(after) = Len(kept) + 1
                 /\ after[Len(after)].activity = caller.activity
                 /\ SubSeq(after, 1, Len(kept)) = kept
                 /\ \A other \in MonitorUsers \ {user} :
                       ActivitiesOf(user_activity', other)
                           = ActivitiesOf(caller.user_activity, other)]_vars

\* log_activity has returned for a user whose list held 100 entries, another
\* user has a list, and the log is full and has dropped its first entries
C22_FullListAndFullLog ==
    /\ caller.pc = "idle"
    /\ caller.op = "log_activity"
    /\ Len(ActivitiesOf(caller.user_activity, caller.entry.user_id)) = 100
    /\ Len(ActivitiesOf(user_activity, caller.entry.user_id)) = 100
    /\ \E other \in MonitorUsers \ {caller.entry.user_id} :
          Len(ActivitiesOf(user_activity, other)) > 0
    /\ Len(logs) = 1000
    /\ logs[1].timestamp > 1

\* the configuration has an entry for the service with enabled = true
EnabledInConfig(service_name) ==
    /\ integration_config.has_services
    /\ \E i \in 1..Len(integration_config.services) :
          /\ integration_config.services[i].key = service_name
          /\ "enabled" \in integration_config.services[i].val.has
          /\ integration_config.services[i].val.enabled

\* C30: after any sequence of register_service, enable_service and
\* disable_service calls, a service is in the active services exactly when its
\* entry in config["services"] has enabled = true, so get_service_status and
\* check_service report "disabled" for every service that is not enabled.
C30_ActiveExactlyWhenEnabled ==
    /\ \A service_name \in ServiceNames :
          (\E i \in 1..Len(services) : services[i].key = service_name)
              <=> EnabledInConfig(service_name)
    /\ (/\ service_returned.op \in {"get_service_status", "check_service"}
        /\ ~EnabledInConfig(service_returned.service_name))
       => service_returned.status = "disabled"

=============================================================================
